---- MODULE Spec2Model ----
(***************************************************************************)
(* Model of the HTTP server of src/src/HttpServer.cpp and                  *)
(* src/include/HttpServer.hpp: the response builder, the route table and   *)
(* its registration methods, the static mount generator, run's start-up    *)
(* sequence, the per-connection task handle_connections_free with its      *)
(* request parser and body read, and the ThreadPool with run's accept loop *)
(* and the SIGINT handler.                                                 *)
(*                                                                         *)
(* Spec is a program configuring and running one server, SpecResponse a    *)
(* caller building one HttpResponse, SpecConn one worker of a serving      *)
(* process running connection tasks, SpecPool the accept loop and the      *)
(* worker threads of a serving process (SpecPoolFair with a fair           *)
(* scheduler).                                                             *)
(*                                                                         *)
(* std::string values are TLA+ strings (Len, \o, Head, Tail and SubSeq act  *)
(* on them byte by byte); std::map is a function whose DOMAIN is the key   *)
(* set and whose iteration order is the ascending byte-wise key order.     *)
(***************************************************************************)
EXTENDS Integers, Sequences, FiniteSets, TLC

VARIABLES
  server,     \* the HttpServer object the program configures and runs
  returned,   \* <<copy>> returned by the last configuration method, <<>> once gone
  thrown,     \* the exception raised by the last operation, "" when none
  pc,         \* position of the program: "config", then the steps of run
  listenfd,   \* state of the listening socket
  bind_retry_count, \* try_bind's counter
  slept,      \* seconds the running, or failed, call of try_bind has spent in sleep
  conn,       \* outcome of the last connection task
  lastReg,    \* history: <<method, route>> -> first and latest handler registered
  calls,      \* history: number of configuration and registration calls made
  res,        \* SpecResponse: the HttpResponse under construction
  order,      \* SpecResponse: keys in the order of their first set_header call
  wire,       \* SpecResponse: result of the last get_full_response call
  process,    \* "running", or "terminated" once std::terminate or a fault ended it
  served,     \* SpecConn: what the peers of the finished connection tasks saw
  _run,       \* SpecPool: the flag the SIGINT handler clears
  sigint,     \* SpecPool: "none", "pending" (raised, not yet handled) or "handled"
  tasks,      \* SpecPool: ThreadPool::tasks, the queue of connection descriptors
  stop,       \* SpecPool: ThreadPool::stop
  queue_mutex, \* SpecPool: the thread holding ThreadPool::queue_mutex, 0 when free
  workers,    \* SpecPool: position and current connection of every worker thread
  conns,      \* SpecPool: the accepted connections, by descriptor
  parsing     \* SpecParse: a request to serialize and the HttpRequest parsed from it

bindVars == <<bind_retry_count, slept>>
serverVars == <<server, returned, thrown, pc, listenfd, bindVars, conn, lastReg, calls>>
responseVars == <<res, order, wire>>
connVars == <<process, served>>
poolVars == <<_run, sigint, tasks, stop, queue_mutex, workers, conns>>
parseVars == <<parsing>>
vars == <<server, returned, thrown, pc, listenfd, bind_retry_count, slept, conn, lastReg, calls,
          res, order, wire, process, served,
          _run, sigint, tasks, stop, queue_mutex, workers, conns, parsing>>

(***************************************************************************)
(* Bounds                                                                  *)
(***************************************************************************)
MaxHeaderCalls == 3
MaxCalls == 2

(***************************************************************************)
(* Strings                                                                 *)
(***************************************************************************)
\* the printable ASCII characters 32..95 and 97..126 in code order
AsciiLow == " !\"#$%&'()*+,-./0123456789:;<=>?@ABCDEFGHIJKLMNOPQRSTUVWXYZ[\\]^_"
AsciiHigh == "abcdefghijklmnopqrstuvwxyz{|}~"

\* byte value of a one-character string
Code(c) ==
  IF \E i \in 1..Len(AsciiLow) : SubSeq(AsciiLow, i, i) = c
  THEN 31 + (CHOOSE i \in 1..Len(AsciiLow) : SubSeq(AsciiLow, i, i) = c)
  ELSE 96 + (CHOOSE i \in 1..Len(AsciiHigh) : SubSeq(AsciiHigh, i, i) = c)

\* std::string operator< : lexicographic comparison of the bytes
RECURSIVE StrLess(_, _)
StrLess(a, b) ==
  IF b = "" THEN FALSE
  ELSE IF a = "" THEN TRUE
  ELSE IF Head(a) = Head(b) THEN StrLess(Tail(a), Tail(b))
  ELSE Code(Head(a)) < Code(Head(b))

\* the keys of a std::map in iteration order
RECURSIVE SortedKeys(_)
SortedKeys(S) ==
  IF S = {} THEN <<>>
  ELSE LET m == CHOOSE k \in S : \A o \in S \ {k} : StrLess(k, o)
       IN  <<m>> \o SortedKeys(S \ {m})

Digit(d) == SubSeq("0123456789", d + 1, d + 1)

\* fmt::format("{}", n) for an unsigned integer
RECURSIVE ToDec(_)
ToDec(n) == IF n < 10 THEN Digit(n) ELSE ToDec(n \div 10) \o Digit(n % 10)

\* std::string::starts_with / ends_with
StartsWith(s, p) == Len(p) <= Len(s) /\ SubSeq(s, 1, Len(p)) = p
EndsWith(s, p) == Len(p) <= Len(s) /\ SubSeq(s, Len(s) - Len(p) + 1, Len(s)) = p

\* s contains p at byte offset i (1-based)
OccursAt(s, p, i) == i + Len(p) - 1 <= Len(s) /\ SubSeq(s, i, i + Len(p) - 1) = p

\* std::string::find: the first offset of p in s, 0 when absent
Find(s, p) ==
  IF \E i \in 1..Len(s) : OccursAt(s, p, i)
  THEN CHOOSE i \in 1..Len(s) : OccursAt(s, p, i) /\ \A j \in 1..(i - 1) : ~OccursAt(s, p, j)
  ELSE 0

(***************************************************************************)
(* HttpResponse                                                            *)
(***************************************************************************)
NoHeaders == [k \in {} |-> ""]

\* HttpResponse::HttpResponse
HttpResponse == [_status_code |-> 200, _headers |-> NoHeaders, _body |-> ""]

\* std::map::insert, which keeps the value of a key already present
insert(m, k, v) == [x \in DOMAIN m \cup {k} |-> IF x \in DOMAIN m THEN m[x] ELSE v]

\* std::map::insert_or_assign
insert_or_assign(m, k, v) == [x \in DOMAIN m \cup {k} |-> IF x = k THEN v ELSE m[x]]

\* the uint8_t conversion of get_status_msg's parameter and of its table keys
uint8_t(n) == n % 256

\* the uint16_t conversion of the int stored into _status_code
uint16_t(n) == n % 65536

\* the table of get_status_msg: its keys are uint8_t
codes ==
  LET entries == { <<200, "OK">>, <<301, "Moved Permanently">>, <<302, "Found">>,
                   <<400, "Bad Request">>, <<404, "Not Found">>,
                   <<405, "Method Not Allowed">> }
  IN  [k \in { uint8_t(e[1]) : e \in entries } |->
         (CHOOSE e \in entries : uint8_t(e[1]) = k)[2]]

\* get_status_msg with the table of the earlier revision, which has no entry for 405
get_status_msg_without_405(status_code) ==
  IF uint8_t(status_code) \in DOMAIN codes \ {uint8_t(405)} THEN codes[uint8_t(status_code)] ELSE "OK"

get_status_msg(status_code) ==
  IF uint8_t(status_code) \in DOMAIN codes THEN codes[uint8_t(status_code)] ELSE "OK"

set_status_code(r, status_code) == [r EXCEPT !._status_code = uint16_t(status_code)]

set_header(r, key, value) == [r EXCEPT !._headers = insert_or_assign(r._headers, key, value)]

text(r, msg) == [set_header(r, "Content-Type", "text/plain") EXCEPT !._body = msg]

html_string(r, msg) == [set_header(r, "Content-Type", "text/html") EXCEPT !._body = msg]

json(r, json_string) == [set_header(r, "Content-Type", "application/json") EXCEPT !._body = json_string]

redirect(r, new_location, status_code) ==
  set_header(set_status_code(r, status_code), "Location", new_location)

\* the "k: v\r\n" lines of the keys ks, in that order
RECURSIVE HeaderLines(_, _)
HeaderLines(h, ks) ==
  IF ks = <<>> THEN ""
  ELSE Head(ks) \o ": " \o h[Head(ks)] \o "\r\n" \o HeaderLines(h, Tail(ks))

\* the keys of a map ordered by std::greater: descending
RECURSIVE ReverseSortedKeys(_)
ReverseSortedKeys(S) ==
  IF S = {} THEN <<>>
  ELSE LET m == CHOOSE k \in S : \A o \in S \ {k} : StrLess(o, k)
       IN  <<m>> \o ReverseSortedKeys(S \ {m})

DescendingOrder(h) == ReverseSortedKeys(DOMAIN h)

\* the loop of get_headers over _headers
IterationOrder(h) == SortedKeys(DOMAIN h)

get_headers(r) ==
  "HTTP/1.1 " \o ToDec(r._status_code) \o " " \o get_status_msg(r._status_code) \o "\r\n"
  \o HeaderLines(r._headers, IterationOrder(r._headers))
  \o (IF r._body # "" THEN "Content-Length: " \o ToDec(Len(r._body)) ELSE "")
  \o "\r\n\r\n"

get_full_response(r) == get_headers(r) \o r._body

(***************************************************************************)
(* The file system seen by slurp, std::ifstream and std::filesystem        *)
(***************************************************************************)
Files ==
  [p \in {"www/index.html", "www/a.css", "www/sub/b.js", "noidx/a.css", "f.txt", "e404.html"} |->
     CASE p = "www/index.html" -> "<h1>"
       [] p = "www/a.css"      -> "p{}"
       [] p = "www/sub/b.js"   -> "x()"
       [] p = "noidx/a.css"    -> "q{}"
       [] p = "f.txt"          -> "t"
       [] p = "e404.html"      -> "<i>"]

Dirs == {"/", "www/", "www/sub/", "noidx/"}

\* strutil::slurp and the std::ifstream reads of HttpResponse::image: the bytes of
\* the file, nothing when it cannot be opened
slurp(path) == IF path \in DOMAIN Files THEN Files[path] ELSE ""

is_directory(path) == path \in Dirs

is_regular_file(path) == path \in DOMAIN Files

\* std::filesystem::recursive_directory_iterator: every entry below the directory
recursive_directory_iterator(dir) ==
  { p \in (DOMAIN Files) \cup Dirs : p # dir /\ StartsWith(p, dir) }

\* std::filesystem::relative(path, root) for a path below root
relative(path, root) == SubSeq(path, Len(root) + 1, Len(path))

\* offsets of the character c in s
Offsets(s, c) == { i \in 1..Len(s) : SubSeq(s, i, i) = c }

Max(S) == CHOOSE x \in S : \A y \in S : y <= x

\* std::filesystem::path::filename
filename(path) ==
  IF Offsets(path, "/") = {} THEN path
  ELSE SubSeq(path, Max(Offsets(path, "/")) + 1, Len(path))

\* std::filesystem::path::extension
extension(path) ==
  LET f == filename(path)
      dots == Offsets(f, ".")
  IN  IF dots = {} \/ f = "." \/ f = ".." \/ Max(dots) = 1 THEN ""
      ELSE SubSeq(f, Max(dots), Len(f))

image(r, path, type) == [set_header(r, "Content-Type", "image/" \o type) EXCEPT !._body = slurp(path)]

static_file(r, path) == [r EXCEPT !._body = slurp(path)]

html(r, path) == static_file(set_header(r, "Content-Type", "text/html"), path)

(***************************************************************************)
(* Handlers (routeFunc values)                                             *)
(***************************************************************************)
\* a lambda given by the user of the library
UserHandler(id) == [kind |-> "user", arg |-> id, ext |-> ""]

\* the lambda staticSetup registers at the mount point
IndexHandler(root) == [kind |-> "index", arg |-> root \o "index.html", ext |-> ""]

\* the lambda staticSetup registers for one file
FileHandler(path) == [kind |-> "file", arg |-> path, ext |-> extension(path)]

\* body of the per-file lambda of staticSetup
FileLambda(h, r) ==
  CASE h.ext = ".css"  -> static_file(set_header(r, "Content-Type", "text/css"), h.arg)
    [] h.ext = ".js"   -> static_file(set_header(r, "Content-Type", "text/javascript"), h.arg)
    [] h.ext = ".html" -> static_file(set_header(r, "Content-Type", "text/html"), h.arg)
    [] h.ext = ".ico"  -> image(r, h.arg, "x-icon")
    [] h.ext = ".svg"  -> image(r, h.arg, "svg+xml")
    [] h.ext = ".txt"  -> static_file(set_header(r, "Content-Type", "text/plain"), h.arg)
    [] h.ext \in {".json", ".map"} -> static_file(set_header(r, "Content-Type", "application/json"), h.arg)
    [] h.ext = ".png"  -> image(r, h.arg, "png")
    [] OTHER           -> static_file(set_header(r, "Content-Type", "text/plain"), h.arg)

\* the user lambdas of the model: what each writes into its HttpResponse
UserLambda(id, req, r) ==
  CASE id = "hText"   -> text(r, "hi")
    [] id = "hCustom" -> json(set_header(set_status_code(r, 404), "x-powered-by", "Me"), "{}")
    [] id = "hMoved"  -> redirect(r, "/hello", 301)
    [] id = "hEcho"   -> text(r, req._body)
    [] id = "hSlow"   -> text(r, "slow")
    [] OTHER          -> r

\* the handler raises an exception instead of returning
Throws(h) == h.kind = "user" /\ h.arg = "hThrow"

\* the handler takes long to return
Slow(h) == h.kind = "user" /\ h.arg = "hSlow"

UserHandlerIds == {"hText", "hCustom", "hMoved"}

\* func(request, res): the HttpResponse as the handler leaves it
Invoke(h, req, r) ==
  CASE h.kind = "user"  -> UserLambda(h.arg, req, r)
    [] h.kind = "index" -> html(r, h.arg)
    [] h.kind = "file"  -> FileLambda(h, r)

(***************************************************************************)
(* HttpRequest                                                             *)
(***************************************************************************)
\* strutil::split: the pieces of s between the occurrences of the delimiter d
RECURSIVE split(_, _)
split(s, d) ==
  LET n == Find(s, d)
  IN  IF n = 0 THEN <<s>>
      ELSE <<SubSeq(s, 1, n - 1)>> \o split(SubSeq(s, n + Len(d), Len(s)), d)

Whitespace == {" ", "\t", "\r", "\n"}

\* strutil::trim: s without its leading and trailing whitespace
RECURSIVE trim(_)
trim(s) ==
  IF s = "" THEN s
  ELSE IF Head(s) \in Whitespace THEN trim(Tail(s))
  ELSE IF SubSeq(s, Len(s), Len(s)) \in Whitespace THEN trim(SubSeq(s, 1, Len(s) - 1))
  ELSE s

Upper == "ABCDEFGHIJKLMNOPQRSTUVWXYZ"
Lower == "abcdefghijklmnopqrstuvwxyz"

\* strutil::lowers: s with its ASCII letters in lower case
RECURSIVE lowers(_)
lowers(s) ==
  IF s = "" THEN s
  ELSE LET c == Head(s)
           up == Offsets(Upper, c)
       IN  (IF up = {} THEN c ELSE SubSeq(Lower, Max(up), Max(up))) \o lowers(Tail(s))

\* std::vector::operator[] at the 1-based position i: the element, or, past the
\* end, whatever the out-of-bounds read yields
At(v, i, garbage) == IF i <= Len(v) THEN v[i] ELSE garbage

\* the header loop of HttpRequest::HttpRequest over the lines after the request line
RECURSIVE ParseHeaders(_, _, _)
ParseHeaders(lines, h, garbage) ==
  IF lines = <<>> THEN h
  ELSE LET tmp == split(Head(lines), ": ")
       IN  ParseHeaders(Tail(lines),
                        insert_or_assign(h, lowers(trim(tmp[1])), lowers(trim(At(tmp, 2, garbage)))),
                        garbage)

\* the request line has a method and a path, and every header line has its separator
WellFormed(raw_headers) ==
  LET n == Find(raw_headers, "\r\n\r\n")
      headers == split(SubSeq(raw_headers, 1, n - 1), "\r\n")
  IN  /\ n > 0
      /\ Len(split(headers[1], " ")) >= 2
      /\ \A i \in 2..Len(headers) : Len(split(headers[i], ": ")) >= 2

\* HttpRequest::HttpRequest, where the reads past the end of a vector yield garbage
HttpRequestReading(raw_headers, garbage) ==
  LET n == Find(raw_headers, "\r\n\r\n")
      header_string == SubSeq(raw_headers, 1, n - 1)
      headers == split(header_string, "\r\n")
      status_line_components == split(headers[1], " ")
  IN  [_method  |-> status_line_components[1],
       _route   |-> At(status_line_components, 2, garbage),
       _headers |-> ParseHeaders(Tail(headers), NoHeaders, garbage),
       _body    |-> ""]

\* HttpRequest::HttpRequest, for a well-formed header block
HttpRequest(raw_headers) == HttpRequestReading(raw_headers, "")

\* what a std::string read past the end of a vector may hold when the read
\* does not fault
Garbage == {"", "/hello"}

\* HttpRequest::HttpRequest: the request built, or "fault" when a read past the
\* end of a vector, which is undefined behaviour, ends the process
ParseOutcomes(raw_headers) ==
  IF WellFormed(raw_headers)
  THEN { [fault |-> FALSE, request |-> HttpRequest(raw_headers)] }
  ELSE { [fault |-> TRUE, request |-> HttpRequestReading(raw_headers, "")] }
       \cup { [fault |-> FALSE, request |-> HttpRequestReading(raw_headers, g)] : g \in Garbage }

(***************************************************************************)
(* HttpServer: construction, registration and configuration                *)
(***************************************************************************)
BIND_RETRY_COUNT == 5

NoRoutes == [m \in {} |-> [p \in {} |-> UserHandler("")]]

\* HttpServer::HttpServer
HttpServer ==
  [_numListeners |-> 3,
   _static_directory_path |-> "",
   _static_directory_mount_point |-> "",
   _notFoundResponse |->
     text(set_status_code(HttpResponse, 404), "Wilson's Server: The requested page is not found"),
   _routes |-> NoRoutes]

\* registration with std::map::insert, which keeps an existing entry
RegisterKeepsFirst(routes, method, route, func) ==
  LET group == IF method \in DOMAIN routes THEN routes[method] ELSE [p \in {} |-> func]
  IN  [m \in DOMAIN routes \cup {method} |->
         IF m = method /\ route \notin DOMAIN group
         THEN insert_or_assign(group, route, func)
         ELSE IF m = method THEN group ELSE routes[m]]

\* _routes[method].insert_or_assign(route, func)
Register(routes, method, route, func) ==
  LET group == IF method \in DOMAIN routes THEN routes[method] ELSE [p \in {} |-> func]
  IN  [m \in DOMAIN routes \cup {method} |->
         IF m = method THEN insert_or_assign(group, route, func) ELSE routes[m]]

\* HttpServer::_get
_get(srv, route, func) == [srv EXCEPT !._routes = Register(srv._routes, "GET", route, func)]

\* a get without the guard
GetNeverRejected(srv) == FALSE

\* the guard of HttpServer::get
GetRejected(srv) == srv._static_directory_path # ""

\* history of registrations: the first and the latest handler given for the pair
Note(log, method, route, func) ==
  [k \in DOMAIN log \cup {<<method, route>>} |->
     IF k # <<method, route>> THEN log[k]
     ELSE [first |-> IF k \in DOMAIN log THEN log[k].first ELSE func, latest |-> func]]

\* HttpServer::get
Get(route, func) ==
  /\ pc = "config" /\ calls < MaxCalls
  /\ IF GetRejected(server)
     THEN /\ thrown' = "invalid_argument: Cannot define GET routes while in static directory serving mode"
          /\ UNCHANGED <<server, lastReg>>
     ELSE /\ server' = [server EXCEPT !._routes = Register(server._routes, "GET", route, func)]
          /\ lastReg' = Note(lastReg, "GET", route, func)
          /\ thrown' = ""
  /\ returned' = <<>>
  /\ calls' = calls + 1
  /\ UNCHANGED <<pc, listenfd, bindVars, conn, responseVars, connVars, poolVars, parseVars>>

\* HttpServer::post, HttpServer::del and HttpServer::put
RegisterMethod(method, route, func) ==
  /\ pc = "config" /\ calls < MaxCalls
  /\ server' = [server EXCEPT !._routes = Register(server._routes, method, route, func)]
  /\ lastReg' = Note(lastReg, method, route, func)
  /\ thrown' = ""
  /\ returned' = <<>>
  /\ calls' = calls + 1
  /\ UNCHANGED <<pc, listenfd, bindVars, conn, responseVars, connVars, poolVars, parseVars>>

Post(route, func) == RegisterMethod("POST", route, func)
Del(route, func) == RegisterMethod("DELETE", route, func)
Put(route, func) == RegisterMethod("PUT", route, func)

\* a configuration method that modified the instance and returned *this
ReturnsThis(tmp) ==
  /\ pc = "config" /\ calls < MaxCalls
  /\ returned' = <<tmp>>
  /\ server' = tmp
  /\ thrown' = ""
  /\ calls' = calls + 1
  /\ UNCHANGED <<lastReg, pc, listenfd, bindVars, conn, responseVars, connVars, poolVars, parseVars>>

\* a configuration method: the server is left alone, tmp is returned
Returns(tmp) ==
  /\ pc = "config" /\ calls < MaxCalls
  /\ returned' = <<tmp>>
  /\ thrown' = ""
  /\ calls' = calls + 1
  /\ UNCHANGED <<server, lastReg, pc, listenfd, bindVars, conn, responseVars, connVars, poolVars, parseVars>>

\* HttpServer::setNumListeners
setNumListeners(num_listeners) == Returns([server EXCEPT !._numListeners = num_listeners])

\* HttpServer::set404Page
set404Page(path) ==
  Returns([server EXCEPT !._notFoundResponse = set_status_code(html(HttpResponse, path), 404)])

\* HttpServer::set404Text
set404Text(message) ==
  Returns([server EXCEPT !._notFoundResponse = set_status_code(text(HttpResponse, message), 404)])

\* set404Response that keeps the status code of the Response it is given
set404ResponseAsGiven(r) ==
  Returns([server EXCEPT !._notFoundResponse = r])

\* HttpServer::set404Response
set404Response(r) ==
  Returns([server EXCEPT !._notFoundResponse = set_status_code(r, 404)])

\* HttpServer::mount_static_directory. back() of an empty directory_path is
\* undefined: the byte it yields is or is not '/', so the path stays empty or
\* becomes "/".
mount_static_directory(directory_path, mount_point) ==
  \E slash \in BOOLEAN :
    /\ directory_path # "" => slash = EndsWith(directory_path, "/")
    /\ Returns([server EXCEPT
                  !._static_directory_path =
                     IF slash THEN directory_path ELSE directory_path \o "/",
                  !._static_directory_mount_point = mount_point])

\* the caller keeps the returned copy: server = server.method(...)
Assign ==
  /\ pc = "config"
  /\ returned # <<>>
  /\ server' = returned[1]
  /\ returned' = <<>>
  /\ thrown' = ""
  /\ UNCHANGED <<lastReg, calls, pc, listenfd, bindVars, conn, responseVars, connVars, poolVars, parseVars>>

(***************************************************************************)
(* HttpServer::run: static setup, socket, bind, listen, then serving       *)
(***************************************************************************)
\* the checks of staticSetup without the one for index.html
StaticSetupErrorWithoutIndexCheck(srv) ==
  LET root == srv._static_directory_path
  IN  IF ~is_directory(root)
      THEN "invalid_argument: static directory path has to point to a directory"
      ELSE IF root = ""
      THEN "invalid_argument: given directory is empty"
      ELSE ""

\* the checks at the head of staticSetup: the message thrown, "" when they pass
StaticSetupError(srv) ==
  LET root == srv._static_directory_path
  IN  IF ~is_directory(root)
      THEN "invalid_argument: static directory path has to point to a directory"
      ELSE IF root = ""
      THEN "invalid_argument: given directory is empty"
      ELSE IF ~is_regular_file(root \o "index.html")
      THEN "invalid_argument: index.html does not exist in the root directory of the static folder"
      ELSE ""

\* the route staticSetup gives the directory entry
FileRoute(entry, root) == "/" \o relative(entry, root)

\* the loop of staticSetup over the entries not yet visited
RECURSIVE RegisterEntries(_, _, _)
RegisterEntries(srv, entries, root) ==
  IF entries = {} THEN srv
  ELSE LET entry == CHOOSE e \in entries : TRUE
           next == IF ~is_regular_file(entry) THEN srv
                   ELSE _get(srv, FileRoute(entry, root), FileHandler(entry))
       IN  RegisterEntries(next, entries \ {entry}, root)

\* HttpServer::staticSetup past its checks
staticSetup(srv) ==
  LET root == srv._static_directory_path
      mounted == _get(srv, srv._static_directory_mount_point, IndexHandler(root))
  IN  RegisterEntries(mounted, recursive_directory_iterator(root), root)

\* the history of the registrations staticSetup makes
RECURSIVE NoteEntries(_, _, _)
NoteEntries(log, entries, root) ==
  IF entries = {} THEN log
  ELSE LET entry == CHOOSE e \in entries : TRUE
           next == IF ~is_regular_file(entry) THEN log
                   ELSE Note(log, "GET", FileRoute(entry, root), FileHandler(entry))
       IN  NoteEntries(next, entries \ {entry}, root)

NoteStatic(log, srv) ==
  LET root == srv._static_directory_path
  IN  NoteEntries(Note(log, "GET", srv._static_directory_mount_point, IndexHandler(root)),
                  recursive_directory_iterator(root), root)

\* run, up to setup_interrupts
RunStaticSetup ==
  /\ pc = "config"
  /\ returned' = <<>>
  /\ IF server._static_directory_path = ""
     THEN /\ pc' = "socket"
          /\ thrown' = ""
          /\ UNCHANGED <<server, lastReg>>
     ELSE IF StaticSetupError(server) # ""
     THEN /\ pc' = "raised"
          /\ thrown' = StaticSetupError(server)
          /\ UNCHANGED <<server, lastReg>>
     ELSE /\ pc' = "socket"
          /\ thrown' = ""
          /\ server' = staticSetup(server)
          /\ lastReg' = NoteStatic(lastReg, server)
  /\ UNCHANGED <<calls, listenfd, bindVars, conn, responseVars, connVars, poolVars, parseVars>>

\* _listenfd = socket(AF_INET, SOCK_STREAM, 0)
RunSocket ==
  /\ pc = "socket"
  /\ listenfd' = "created"
  /\ pc' = "bind"
  /\ UNCHANGED <<server, returned, thrown, bindVars, conn, lastReg, calls, responseVars, connVars, poolVars, parseVars>>

\* a loop condition that retries as long as bind fails
retry_forever(bind_status, count) == bind_status = -1

\* while (bind_status == -1 && bind_retry_count < BIND_RETRY_COUNT)
retry(bind_status, count) == bind_status = -1 /\ count < BIND_RETRY_COUNT

\* one turn of the loop of try_bind: bind, and after a failure the increment
\* and sleep(1 * bind_retry_count); then the loop condition and, when the loop
\* ends, the check after it. A call that returns leaves nothing of its counter
\* and of the time it took
TryBind(bind_status) ==
  /\ pc = "bind"
  /\ LET count == IF bind_status = -1 THEN bind_retry_count + 1 ELSE bind_retry_count
     IN  /\ slept' = IF bind_status = -1 THEN slept + 1 * count ELSE 0
         /\ IF retry(bind_status, count)
            THEN /\ bind_retry_count' = count
                 /\ UNCHANGED <<pc, thrown, listenfd>>
            ELSE /\ bind_retry_count' = 0
                 /\ IF bind_status = -1
                    THEN /\ pc' = "raised"
                         /\ thrown' = "runtime_error: Unable to bind after 5 tries"
                         /\ UNCHANGED listenfd
                    ELSE /\ listenfd' = "bound"
                         /\ pc' = "listen"
                         /\ UNCHANGED thrown
  /\ UNCHANGED <<server, returned, conn, lastReg, calls, responseVars, connVars, poolVars, parseVars>>

\* HttpServer::try_listen
TryListen(status) ==
  /\ pc = "listen"
  /\ IF status = 0
     THEN /\ listenfd' = "listening"
          /\ pc' = "serving"
          /\ UNCHANGED thrown
     ELSE /\ pc' = "raised"
          /\ thrown' = "runtime_error: unable to listen"
          /\ UNCHANGED listenfd
  /\ UNCHANGED <<server, returned, bindVars, conn, lastReg, calls, responseVars, connVars, poolVars, parseVars>>

(***************************************************************************)
(* The connection task                                                     *)
(***************************************************************************)
NoConn == [sent |-> "", read |-> "", method |-> "", route |-> "", body |-> "", reply |-> "",
           invoked |-> <<>>, closed |-> FALSE, raised |-> "", outcome |-> "",
           _notFoundResponse |-> HttpResponse, res |-> HttpResponse]

\* a dispatch that adds no header of its own
NotPoweredBy(r) == r

\* the response every dispatch starts from
PoweredBy(r) == set_header(r, "x-powered-by", "Wilson-Server")

\* the handler is handed the Not-Found response the task was given
SharedResponse(_notFoundResponse) == PoweredBy(_notFoundResponse)

\* HttpResponse res; res.set_header("x-powered-by", "Wilson-Server"): the
\* Response of this request, a local of the task
LocalResponse(_notFoundResponse) == PoweredBy(HttpResponse)

\* the dispatch of handle_connections_free on a parsed request; res is the
\* Response as the handler, if any, finds it at entry
DispatchExact(request, _routes, _notFoundResponse) ==
  LET r == LocalResponse(_notFoundResponse)
  IN  IF request._method \notin DOMAIN _routes
      THEN [reply |-> get_full_response(set_status_code(r, 405)),
            invoked |-> <<>>, closed |-> FALSE, raised |-> "",
            _notFoundResponse |-> _notFoundResponse, res |-> r]
      ELSE LET route == _routes[request._method]
           IN  IF request._route \notin DOMAIN route
               THEN [reply |-> get_full_response(PoweredBy(_notFoundResponse)),
                     invoked |-> <<>>, closed |-> FALSE, raised |-> "",
                     _notFoundResponse |-> PoweredBy(_notFoundResponse), res |-> r]
               ELSE LET func == route[request._route]
                    IN  IF Throws(func)
                        THEN [reply |-> "", invoked |-> <<func>>, closed |-> FALSE,
                              raised |-> "runtime_error",
                              _notFoundResponse |-> _notFoundResponse, res |-> r]
                        ELSE [reply |-> get_full_response(Invoke(func, request, r)),
                              invoked |-> <<func>>, closed |-> TRUE, raised |-> "",
                              _notFoundResponse |-> _notFoundResponse, res |-> r]

\* the path without a trailing slash and without a query string
Normalized(route) ==
  LET q == Find(route, "?")
      p == IF q = 0 THEN route ELSE SubSeq(route, 1, q - 1)
  IN  IF Len(p) > 1 /\ EndsWith(p, "/") THEN SubSeq(p, 1, Len(p) - 1) ELSE p

\* a dispatch that normalizes the method and the path before the lookup
DispatchNormalizing(request, _routes, _notFoundResponse) ==
  DispatchExact([request EXCEPT !._route = Normalized(request._route)], _routes, _notFoundResponse)

\* the 405 reply sent for the Not-Found case
DispatchNotFoundAs405(request, _routes, _notFoundResponse) ==
  DispatchExact(request, _routes, set_status_code(HttpResponse, 405))

\* a dispatch that calls some handler of the method when the path has none
DispatchSomeRoute(request, _routes, _notFoundResponse) ==
  IF request._method \in DOMAIN _routes /\ request._route \notin DOMAIN _routes[request._method]
  THEN DispatchExact([request EXCEPT !._route = CHOOSE p \in DOMAIN _routes[request._method] : TRUE],
                     _routes, _notFoundResponse)
  ELSE DispatchExact(request, _routes, _notFoundResponse)

Dispatch(request, _routes, _notFoundResponse) ==
  DispatchExact(request, _routes, _notFoundResponse)

\* the bytes the read loop collects: up to and including the first "\r\n\r\n",
\* or nothing usable when the peer's bytes end before it
request_string(sent) ==
  LET n == Find(sent, "\r\n\r\n")
  IN  IF n = 0 THEN "" ELSE SubSeq(sent, 1, n + 3)

IsDigit(c) == Offsets("0123456789", c) # {}

\* the longest prefix of s made of decimal digits
RECURSIVE LeadingDigits(_)
LeadingDigits(s) ==
  IF s = "" THEN ""
  ELSE IF IsDigit(Head(s)) THEN Head(s) \o LeadingDigits(Tail(s)) ELSE ""

RECURSIVE WithoutLeadingZeros(_)
WithoutLeadingZeros(s) ==
  IF Len(s) > 1 /\ Head(s) = "0" THEN WithoutLeadingZeros(Tail(s)) ELSE s

\* the value of a string of decimal digits
RECURSIVE DecValue(_)
DecValue(s) ==
  IF s = "" THEN 0
  ELSE 10 * DecValue(SubSeq(s, 1, Len(s) - 1))
         + (Max(Offsets("0123456789", SubSeq(s, Len(s), Len(s)))) - 1)

\* the decimal digits of ULONG_MAX, 2^64 - 1
ULONG_MAX == "18446744073709551615"

\* std::stoul(str): leading whitespace, an optional sign and the digits that
\* follow. invalid_argument without a digit, out_of_range beyond ULONG_MAX;
\* otherwise the value, kept as its digits, which is negated modulo 2^64
\* (wrapped) after a minus sign
stoul(str) ==
  LET t == trim(str)
      signed == t # "" /\ Head(t) \in {"-", "+"}
      digits == LeadingDigits(IF signed THEN Tail(t) ELSE t)
      magnitude == WithoutLeadingZeros(digits)
  IN  IF digits = "" THEN [throws |-> "invalid_argument", magnitude |-> "", wrapped |-> FALSE]
      ELSE IF \/ Len(magnitude) > Len(ULONG_MAX)
              \/ Len(magnitude) = Len(ULONG_MAX) /\ StrLess(ULONG_MAX, magnitude)
      THEN [throws |-> "out_of_range", magnitude |-> magnitude, wrapped |-> FALSE]
      ELSE [throws |-> "", magnitude |-> magnitude,
            wrapped |-> (signed /\ Head(t) = "-" /\ magnitude # "0")]

\* a byte of value 0, as std::string::resize fills in; written as a form feed,
\* which no peer of the model sends, because a string of the model cannot hold
\* the byte 0
ZeroByte == "\f"

RECURSIVE Zeros(_)
Zeros(n) == IF n = 0 THEN "" ELSE ZeroByte \o Zeros(n - 1)

Min(a, b) == IF a < b THEN a ELSE b

\* handle_request_body: the body left in the request, or the exception that
\* leaves the function, or a read that never returns. `rest` is what the peer
\* sends after the header block and `end` what it does then. The one read call
\* returns what has arrived of `rest` by then, at least one byte
handle_request_body(request, rest, end) ==
  LET none == { [body |-> "", raised |-> "", blocked |-> FALSE] }
  IN  IF "content-length" \notin DOMAIN request._headers THEN none
      ELSE LET size_to_read == stoul(request._headers["content-length"])
           IN  IF size_to_read.throws = "out_of_range" THEN none
               ELSE IF size_to_read.throws # ""
               THEN { [body |-> "", raised |-> size_to_read.throws, blocked |-> FALSE] }
               ELSE IF size_to_read.wrapped \/ Len(size_to_read.magnitude) > 9
               THEN { [body |-> "", raised |-> "length_error", blocked |-> FALSE] }
               ELSE LET n == DecValue(size_to_read.magnitude)
                    IN  IF n = 0 THEN none
                        ELSE IF rest = "" /\ end = "stall"
                        THEN { [body |-> Zeros(n), raised |-> "", blocked |-> TRUE] }
                        ELSE IF rest = ""
                        THEN { [body |-> Zeros(n), raised |-> "", blocked |-> FALSE] }
                        ELSE { [body |-> SubSeq(rest, 1, k) \o Zeros(n - k),
                                raised |-> "", blocked |-> FALSE] :
                               k \in 1..Min(n, Len(rest)) }

\* handle_connections_free for a peer that sends peer.bytes and then closes
\* ("close"), resets ("reset") or keeps the connection open and silent
\* ("stall"): the possible outcomes of the task
\* the caller's object after a call that took it by reference: the callee
\* worked on the object itself
by_reference(argument, parameter) == parameter

\* the caller's object after a call that took it by value: the callee worked on
\* its own copy
by_value(argument, parameter) == argument

\* the server after a task that ended with its _notFoundResponse parameter as
\* in c: handle_connections_free takes _routes and _notFoundResponse by value
AfterTask(srv, c) ==
  [srv EXCEPT !._notFoundResponse = by_value(srv._notFoundResponse, c._notFoundResponse)]

handle_connections_free(peer, _routes, _notFoundResponse) ==
  LET raw == request_string(peer.bytes)
      rest == SubSeq(peer.bytes, Len(raw) + 1, Len(peer.bytes))
      start == [NoConn EXCEPT !.sent = peer.bytes, !._notFoundResponse = _notFoundResponse]
  IN  IF raw = ""
      THEN { [start EXCEPT !.outcome = IF peer.end = "stall" THEN "blocked" ELSE "returned"] }
      ELSE UNION {
             IF p.fault
             THEN { [start EXCEPT !.read = raw, !.outcome = "fault"] }
             ELSE LET parsed == [start EXCEPT !.read = raw, !.method = p.request._method,
                                              !.route = p.request._route]
                  IN  { IF b.raised # ""
                        THEN [parsed EXCEPT !.outcome = "exception", !.raised = b.raised]
                        ELSE IF b.blocked
                        THEN [parsed EXCEPT !.outcome = "blocked"]
                        ELSE LET request == [p.request EXCEPT !._body = b.body]
                                 d == Dispatch(request, _routes, _notFoundResponse)
                             IN  [parsed EXCEPT !.body = b.body, !.reply = d.reply,
                                                !.invoked = d.invoked, !.closed = d.closed,
                                                !.raised = d.raised,
                                                !._notFoundResponse = d._notFoundResponse,
                                                !.res = d.res,
                                                !.outcome = IF d.raised # "" THEN "exception"
                                                            ELSE "returned"]
                        : b \in handle_request_body(p.request, rest, peer.end) }
             : p \in ParseOutcomes(raw) }

\* a peer that sends `sent` and closes
Closing(sent) == [bytes |-> sent, end |-> "close"]

\* accept_connection succeeds and the task enqueued for the connection runs
HandleConnection(sent) ==
  /\ pc = "serving"
  /\ conn = NoConn
  /\ conn' \in handle_connections_free(Closing(sent), server._routes, server._notFoundResponse)
  /\ server' = AfterTask(server, conn')
  /\ UNCHANGED <<returned, thrown, pc, listenfd, bindVars, lastReg, calls,
                 responseVars, connVars, poolVars, parseVars>>

\* the task has returned and its locals are gone; run is back at accept
TaskReturns ==
  /\ pc = "serving"
  /\ conn # NoConn
  /\ conn' = NoConn
  /\ UNCHANGED <<server, returned, thrown, pc, listenfd, bindVars, lastReg, calls,
                 responseVars, connVars, poolVars, parseVars>>

(***************************************************************************)
(* Spec: a program that configures one server, runs it and serves          *)
(***************************************************************************)
RawRequest(method, route) == method \o " " \o route \o " HTTP/1.1\r\nHost: x\r\n\r\n"

Sent ==
  { RawRequest("GET", "/hello"), RawRequest("GET", "/hello/"), RawRequest("GET", "/Hello"),
    RawRequest("GET", "/hello?x=1"), RawRequest("get", "/hello"), RawRequest("POST", "/hello"),
    RawRequest("PATCH", "/hello"), RawRequest("GET", "/"), RawRequest("GET", "/app"),
    RawRequest("GET", "/a.css"), RawRequest("GET", "/app/a.css"), RawRequest("GET", "/sub/b.js"),
    RawRequest("PUT", "/a.css"), RawRequest("DELETE", "/a.css"), "GET /hel" }

Routes == {"/hello", "/a.css"}

Mounts == { <<"www", "/">>, <<"www/", "/app">>, <<"www", "/a.css">>, <<"noidx", "/">>,
            <<"nodir", "/app">>, <<"f.txt", "/">>, <<"", "/">> }

NotFoundResponses ==
  { json(set_header(HttpResponse, "a", "1"), "{}"), text(set_status_code(HttpResponse, 500), "oops") }

NoLog == [k \in {} |-> [first |-> UserHandler(""), latest |-> UserHandler("")]]

InitResponse ==
  /\ res = HttpResponse
  /\ order = <<>>
  /\ wire = ""

InitServer ==
  /\ server = HttpServer
  /\ returned = <<>>
  /\ thrown = ""
  /\ pc = "config"
  /\ listenfd = "none"
  /\ bind_retry_count = 0
  /\ slept = 0
  /\ conn = NoConn
  /\ lastReg = NoLog
  /\ calls = 0

\* nothing to parse, nothing parsed
NoParsing == [method |-> "", route |-> "", headers |-> <<>>, parsed |-> <<>>]

\* before run has built its ThreadPool: no worker, no task, no connection
InitNoPool ==
  /\ process = "running"
  /\ served = <<>>
  /\ _run = 1
  /\ sigint = "none"
  /\ tasks = <<>>
  /\ stop = FALSE
  /\ queue_mutex = 0
  /\ workers = <<>>
  /\ conns = <<>>

Init == InitServer /\ InitResponse /\ InitNoPool /\ parsing = NoParsing

Next ==
  \/ \E route \in Routes, id \in UserHandlerIds : Get(route, UserHandler(id))
  \/ \E route \in Routes, id \in UserHandlerIds : Post(route, UserHandler(id))
  \/ \E route \in Routes, id \in UserHandlerIds : Del(route, UserHandler(id))
  \/ \E route \in Routes, id \in UserHandlerIds : Put(route, UserHandler(id))
  \/ setNumListeners(10)
  \/ \E path \in {"e404.html", "missing.html"} : set404Page(path)
  \/ set404Text("gone")
  \/ \E r \in NotFoundResponses : set404Response(r)
  \/ \E m \in Mounts : mount_static_directory(m[1], m[2])
  \/ Assign
  \/ RunStaticSetup
  \/ RunSocket
  \/ \E bind_status \in {0, -1} : TryBind(bind_status)
  \/ \E status \in {0, -1} : TryListen(status)
  \/ \E sent \in Sent : HandleConnection(sent)
  \/ TaskReturns

Spec == Init /\ [][Next]_vars

(***************************************************************************)
(* SpecConn: a serving process seen through one worker, which runs the     *)
(* connection tasks one after the other                                    *)
(***************************************************************************)
MaxServed == 2

\* the route table of the serving process
ServingRoutes ==
  Register(Register(Register(Register(NoRoutes,
    "GET", "/hello", UserHandler("hText")),
    "GET", "/slow", UserHandler("hSlow")),
    "GET", "/boom", UserHandler("hThrow")),
    "POST", "/echo", UserHandler("hEcho"))

\* a header block with the request line and the header lines given
Block(request_line, header_lines) == request_line \o "\r\n" \o header_lines \o "\r\n"

Echo(content_length) ==
  Block("POST /echo HTTP/1.1", "Content-Length: " \o content_length \o "\r\n")

\* what the peers of the model send, and what they do afterwards
Peers ==
  { Closing(RawRequest("GET", "/hello")), Closing(RawRequest("GET", "/nope")),
    Closing(RawRequest("PATCH", "/hello")), Closing(RawRequest("GET", "/boom")),
    Closing(RawRequest("POST", "/echo")),
    Closing(""), Closing("GET /hel"),
    [bytes |-> "GET /hel", end |-> "reset"], [bytes |-> "GET /hel", end |-> "stall"],
    [bytes |-> "", end |-> "stall"],
    Closing(Echo("4") \o "abcd"), Closing(Echo("2") \o "ab"), Closing(Echo("0")),
    [bytes |-> Echo("2"), end |-> "stall"], [bytes |-> Echo("2"), end |-> "reset"],
    Closing(Echo("abc")), Closing(Echo("")), Closing(Echo("-1")), Closing(Echo("-0")),
    Closing(Echo("99999999999999999999")), Closing(Echo("18446744073709551616")),
    Closing(Block("GET", "")), Closing(Block("GET /hello HTTP/1.1", "Host x\r\n")),
    Closing(Block("", "")) }

InitConn ==
  /\ server = [HttpServer EXCEPT !._routes = ServingRoutes]
  /\ returned = <<>>
  /\ thrown = ""
  /\ pc = "serving"
  /\ listenfd = "listening"
  /\ bind_retry_count = 0
  /\ slept = 0
  /\ conn = NoConn
  /\ lastReg = NoLog
  /\ calls = 0
  /\ InitResponse
  /\ InitNoPool
  /\ parsing = NoParsing

\* worker_thread runs the task of one connection: an exception that leaves the
\* task leaves the thread function, which calls std::terminate; a fault ends
\* the process as well
RunTask(peer) ==
  /\ pc = "serving"
  /\ process = "running"
  /\ conn = NoConn
  /\ Len(served) < MaxServed
  /\ conn' \in handle_connections_free(peer, server._routes, server._notFoundResponse)
  /\ server' = AfterTask(server, conn')
  /\ process' = IF conn'.outcome \in {"exception", "fault"} THEN "terminated" ELSE "running"
  /\ UNCHANGED <<returned, thrown, pc, listenfd, bindVars, lastReg, calls,
                 served, responseVars, poolVars, parseVars>>

\* the task has returned: the worker is free for the next connection
TaskDone ==
  /\ pc = "serving"
  /\ process = "running"
  /\ conn.outcome = "returned"
  /\ served' = Append(served, [sent |-> conn.sent, reply |-> conn.reply, closed |-> conn.closed])
  /\ conn' = NoConn
  /\ UNCHANGED <<server, returned, thrown, pc, listenfd, bindVars, lastReg, calls,
                 process, responseVars, poolVars, parseVars>>

NextConn ==
  \/ \E peer \in Peers : RunTask(peer)
  \/ TaskDone

SpecConn == InitConn /\ [][NextConn]_vars

(***************************************************************************)
(* SpecPool: run's accept loop, the ThreadPool and its worker threads      *)
(***************************************************************************)
\* the largest std::thread::hardware_concurrency() of a machine
NumThreads == 2

\* connections the clients open while the process serves
MaxConnections == NumThreads + 1

\* the worker threads the ThreadPool was constructed with
Workers == DOMAIN workers

\* the thread of run, as a holder of queue_mutex
Main == NumThreads + 1

PoolPeers ==
  { Closing(RawRequest("GET", "/hello")), Closing(RawRequest("GET", "/slow")),
    Closing(RawRequest("GET", "/boom")), Closing(RawRequest("GET", "/nope")),
    [bytes |-> "GET /hel", end |-> "stall"] }

\* the possible outcomes of the task of each peer, with the route table and the
\* Not-Found response the serving process holds
TaskOutcomes ==
  [peer \in PoolPeers |->
     handle_connections_free(peer, ServingRoutes, HttpServer._notFoundResponse)]

\* run has bound, listens and has constructed its ThreadPool with
\* num_threads = std::thread::hardware_concurrency() workers, which is 0 when
\* the value is not computable: every worker thread is started and about to
\* lock queue_mutex
InitPool ==
  /\ server = [HttpServer EXCEPT !._routes = ServingRoutes]
  /\ returned = <<>>
  /\ thrown = ""
  /\ pc = "loop"
  /\ listenfd = "listening"
  /\ bind_retry_count = 0
  /\ slept = 0
  /\ conn = NoConn
  /\ lastReg = NoLog
  /\ calls = 0
  /\ InitResponse
  /\ process = "running"
  /\ served = <<>>
  /\ _run = 1
  /\ sigint = "none"
  /\ tasks = <<>>
  /\ stop = FALSE
  /\ queue_mutex = 0
  /\ \E num_threads \in 0..NumThreads :
       workers = [w \in 1..num_threads |-> [pc |-> "lock", connfd |-> 0]]
  /\ conns = <<>>
  /\ parsing = NoParsing

\* what no action of the pool changes
taskVars == <<returned, bindVars, conn, lastReg, calls, served, responseVars, parseVars>>

\* what the steps that run no task leave alone
configVars == <<server, taskVars>>

\* the workers blocked inside condition.wait
Waiting == { w \in Workers : workers[w].pc = "waiting" }

\* condition.notify_one wakes no thread at all
notify_none(waiters) == { {} }

\* condition.notify_one: the sets of threads it may wake, one of the waiters
\* when there is one
notify_one(waiters) == IF waiters = {} THEN { {} } ELSE { {w} : w \in waiters }

\* condition.notify_all
notify_all(waiters) == { waiters }

\* the workers after the threads in `woken` left condition.wait: each has to
\* lock queue_mutex again before it evaluates the predicate
Wake(woken) == [w \in Workers |-> IF w \in woken THEN [workers[w] EXCEPT !.pc = "lock"] ELSE workers[w]]

\* std::mutex::lock returns at once although another thread holds the mutex
lock_unguarded(mutex) == TRUE

\* std::mutex::lock, as taken by lock_guard and unique_lock: it returns once no
\* thread holds the mutex
lock_guard(mutex) == mutex = 0

\* tasks.push(task) that pushes the task twice
push_twice(q, task) == Append(Append(q, task), task)

\* tasks.push(task)
push(q, task) == Append(q, task)

\* the task at the back of the queue
back(q) == q[Len(q)]

\* tasks.front()
front(q) == Head(q)

\* tasks.pop() that leaves the queue as it is
pop_nothing(q) == q

\* tasks.pop()
pop(q) == Tail(q)

\* if (stop && tasks.empty()) return;
stop_and_empty(stopped, q) == stopped /\ q = <<>>

\* while (_run)
RunLoop ==
  /\ process = "running"
  /\ pc = "loop"
  /\ pc' = IF _run # 0 THEN "accept" ELSE "cleanup"
  /\ UNCHANGED <<thrown, listenfd, process, poolVars, configVars>>

\* accept_connection returns the descriptor of a new connection
AcceptConnection(peer) ==
  /\ process = "running"
  /\ pc = "accept"
  /\ Len(conns) < MaxConnections
  /\ conns' = Append(conns, [peer |-> peer, task |-> NoConn])
  /\ pc' = "enqueue"
  /\ UNCHANGED <<thrown, listenfd, process, _run, sigint, tasks, stop, queue_mutex, workers,
                 configVars>>

\* accept returns -1 (the descriptor table is full, the connection was
\* aborted, ...): accept_connection calls _cleanup() and throws
AcceptFails ==
  /\ process = "running"
  /\ pc = "accept"
  /\ listenfd' = "closed"
  /\ thrown' = "runtime_error: error accepting connection"
  /\ pc' = "unwind"
  /\ UNCHANGED <<process, poolVars, configVars>>

\* ThreadPool::enqueue: std::lock_guard lock(queue_mutex)
EnqueueLock ==
  /\ process = "running"
  /\ pc = "enqueue"
  /\ lock_guard(queue_mutex)
  /\ queue_mutex' = Main
  /\ pc' = "push"
  /\ UNCHANGED <<thrown, listenfd, process, _run, sigint, tasks, stop, workers, conns, configVars>>

\* ThreadPool::enqueue: tasks.push(task) and the end of the lock's scope
EnqueuePush ==
  /\ process = "running"
  /\ pc = "push"
  /\ tasks' = push(tasks, Len(conns))
  /\ queue_mutex' = 0
  /\ pc' = "notify"
  /\ UNCHANGED <<thrown, listenfd, process, _run, sigint, stop, workers, conns, configVars>>

\* ThreadPool::enqueue: condition.notify_one()
EnqueueNotify ==
  /\ process = "running"
  /\ pc = "notify"
  /\ \E woken \in notify_one(Waiting) : workers' = Wake(woken)
  /\ pc' = "loop"
  /\ UNCHANGED <<thrown, listenfd, process, _run, sigint, tasks, stop, queue_mutex, conns,
                 configVars>>

\* _cleanup() after the loop
Cleanup ==
  /\ process = "running"
  /\ pc = "cleanup"
  /\ listenfd' = "closed"
  /\ pc' = "destroy"
  /\ UNCHANGED <<thrown, process, poolVars, configVars>>

\* the exception of accept_connection leaves run: when a caller catches it the
\* stack is unwound and ~ThreadPool runs; when none does, std::terminate ends
\* the process, with or without unwinding
Unwind ==
  /\ process = "running"
  /\ pc = "unwind"
  /\ \/ pc' = "destroy" /\ UNCHANGED process
     \/ process' = "terminated" /\ UNCHANGED pc
  /\ UNCHANGED <<thrown, listenfd, poolVars, configVars>>

\* ThreadPool::~ThreadPool: stop = true under the lock
DestroyStop ==
  /\ process = "running"
  /\ pc = "destroy"
  /\ lock_guard(queue_mutex)
  /\ stop' = TRUE
  /\ pc' = "notify_all"
  /\ UNCHANGED <<thrown, listenfd, process, _run, sigint, tasks, queue_mutex, workers, conns,
                 configVars>>

\* ThreadPool::~ThreadPool: condition.notify_all()
DestroyNotify ==
  /\ process = "running"
  /\ pc = "notify_all"
  /\ \E woken \in notify_all(Waiting) : workers' = Wake(woken)
  /\ pc' = "join"
  /\ UNCHANGED <<thrown, listenfd, process, _run, sigint, tasks, stop, queue_mutex, conns,
                 configVars>>

\* ThreadPool::~ThreadPool: every worker is joined; run returns, or the
\* exception goes on to the caller
DestroyJoin ==
  /\ process = "running"
  /\ pc = "join"
  /\ \A w \in Workers : workers[w].pc = "exited"
  /\ pc' = IF thrown = "" THEN "returned" ELSE "raised"
  /\ UNCHANGED <<thrown, listenfd, process, poolVars, configVars>>

\* worker_thread: std::unique_lock lock(queue_mutex), also when it is locked
\* again inside condition.wait
WorkerLock(w) ==
  /\ process = "running"
  /\ workers[w].pc = "lock"
  /\ lock_guard(queue_mutex)
  /\ queue_mutex' = w
  /\ workers' = [workers EXCEPT ![w].pc = "check"]
  /\ UNCHANGED <<pc, thrown, listenfd, process, _run, sigint, tasks, stop, conns, configVars>>

\* worker_thread with the lock held: condition.wait's predicate, then the
\* return on stop with an empty queue or the pop; each path releases the lock
WorkerCheck(w) ==
  /\ process = "running"
  /\ workers[w].pc = "check"
  /\ queue_mutex' = 0
  /\ IF ~(stop \/ tasks # <<>>)
     THEN workers' = [workers EXCEPT ![w].pc = "waiting"] /\ UNCHANGED tasks
     ELSE IF stop_and_empty(stop, tasks)
     THEN workers' = [workers EXCEPT ![w].pc = "exited"] /\ UNCHANGED tasks
     ELSE /\ workers' = [workers EXCEPT ![w] = [pc |-> "task", connfd |-> front(tasks)]]
          /\ tasks' = pop(tasks)
  /\ UNCHANGED <<pc, thrown, listenfd, process, _run, sigint, stop, conns, configVars>>

\* worker_thread: task(), which is handle_connections_free on the connection;
\* it returns, or stays in a read or in a slow handler, or an exception or a
\* fault leaves it and ends the process
WorkerTask(w) ==
  /\ process = "running"
  /\ workers[w].pc = "task"
  /\ LET connfd == workers[w].connfd
     IN  \E c \in TaskOutcomes[conns[connfd].peer] :
           /\ server' = AfterTask(server, c)
           /\ process' = IF c.outcome \in {"exception", "fault"} THEN "terminated" ELSE "running"
           /\ IF c.outcome = "blocked"
              THEN workers' = [workers EXCEPT ![w].pc = "blocked"] /\ UNCHANGED conns
              ELSE IF c.outcome = "returned" /\ c.invoked # <<>> /\ Slow(c.invoked[1])
              THEN workers' = [workers EXCEPT ![w].pc = "handler"] /\ UNCHANGED conns
              ELSE /\ conns' = [conns EXCEPT ![connfd].task = c]
                   /\ workers' = [workers EXCEPT ![w] = [pc |-> "lock", connfd |-> 0]]
  /\ UNCHANGED <<pc, thrown, listenfd, _run, sigint, tasks, stop, queue_mutex, taskVars>>

\* the slow handler of the worker's connection returns at last: the reply is
\* written and the task ends
HandlerReturns(w) ==
  /\ process = "running"
  /\ workers[w].pc = "handler"
  /\ LET connfd == workers[w].connfd
     IN  \E c \in TaskOutcomes[conns[connfd].peer] :
           /\ conns' = [conns EXCEPT ![connfd].task = c]
           /\ server' = AfterTask(server, c)
  /\ workers' = [workers EXCEPT ![w] = [pc |-> "lock", connfd |-> 0]]
  /\ UNCHANGED <<pc, thrown, listenfd, process, _run, sigint, tasks, stop, queue_mutex,
                 taskVars>>

\* a SIGINT is sent to the process
Interrupt ==
  /\ process = "running"
  /\ pc \in {"loop", "accept", "enqueue", "push", "notify"}
  /\ sigint = "none"
  /\ sigint' = "pending"
  /\ UNCHANGED <<pc, thrown, listenfd, process, _run, tasks, stop, queue_mutex, workers, conns,
                 configVars>>

\* intHandler runs on the thread of run. The handler is installed without
\* SA_RESTART: when the thread is inside accept, accept returns -1 with EINTR
\* and accept_connection closes the listening socket and throws; when it is
\* not yet inside accept, or elsewhere, only _run changes
HandlerOnMain ==
  /\ process = "running"
  /\ sigint = "pending"
  /\ pc \in {"loop", "accept", "enqueue", "push", "notify"}
  /\ sigint' = "handled"
  /\ _run' = 0
  /\ \/ /\ pc = "accept"
        /\ listenfd' = "closed"
        /\ thrown' = "runtime_error: error accepting connection"
        /\ pc' = "unwind"
     \/ UNCHANGED <<pc, thrown, listenfd>>
  /\ UNCHANGED <<process, tasks, stop, queue_mutex, workers, conns, configVars>>

\* intHandler runs on a worker thread: _run changes; a read the worker is
\* blocked in returns -1 with EINTR, which ends the read loop of the task
HandlerOnWorker(w) ==
  /\ process = "running"
  /\ sigint = "pending"
  /\ workers[w].pc # "exited"
  /\ sigint' = "handled"
  /\ _run' = 0
  /\ IF workers[w].pc = "blocked"
     THEN LET connfd == workers[w].connfd
          IN  /\ conns' = [conns EXCEPT ![connfd].task =
                             [NoConn EXCEPT !.sent = conns[connfd].peer.bytes,
                                            !.outcome = "returned"]]
              /\ workers' = [workers EXCEPT ![w] = [pc |-> "lock", connfd |-> 0]]
     ELSE UNCHANGED <<workers, conns>>
  /\ UNCHANGED <<pc, thrown, listenfd, process, tasks, stop, queue_mutex, configVars>>

\* the steps of worker w that depend on nothing but the pool
WorkerStep(w) == w \in Workers /\ (WorkerLock(w) \/ WorkerCheck(w) \/ WorkerTask(w))

\* the steps of run's thread that wait for no client
MainStep ==
  \/ RunLoop \/ EnqueueLock \/ EnqueuePush \/ EnqueueNotify
  \/ Cleanup \/ DestroyStop \/ DestroyNotify \/ DestroyJoin

NextPool ==
  \/ MainStep
  \/ \E peer \in PoolPeers : AcceptConnection(peer)
  \/ AcceptFails
  \/ Unwind
  \/ \E w \in Workers : WorkerStep(w)
  \/ \E w \in Workers : HandlerReturns(w)
  \/ Interrupt
  \/ HandlerOnMain
  \/ \E w \in Workers : HandlerOnWorker(w)

SpecPool == InitPool /\ [][NextPool]_vars

\* the scheduler runs every thread that can take a step; clients, signals and
\* slow handlers owe nothing
SpecPoolFair ==
  /\ SpecPool
  /\ WF_vars(MainStep)
  /\ \A w \in 1..NumThreads : WF_vars(WorkerStep(w))

(***************************************************************************)
(* SpecParse: a client serializes a request line and header lines, and     *)
(* HttpRequest::HttpRequest parses the block                               *)
(***************************************************************************)
MaxHeaders == 2

ParseMethods == {"GET", "Post"}
ParsePaths == {"/a", "/A/b?x=1", "/a b"}
ParseKeys == {"Host", "host", " X-Id"}
ParseValues == {"A.b", "keep-alive ", ""}

\* the sequences of at most n elements of S
RECURSIVE SeqsUpTo(_, _)
SeqsUpTo(S, n) ==
  IF n = 0 THEN { <<>> }
  ELSE LET shorter == SeqsUpTo(S, n - 1)
       IN  shorter \cup { Append(q, x) : q \in shorter, x \in S }

\* the header lines "key: value\r\n" of a sequence of <<key, value>> pairs
RECURSIVE SerializedHeaders(_)
SerializedHeaders(headers) ==
  IF headers = <<>> THEN ""
  ELSE Head(headers)[1] \o ": " \o Head(headers)[2] \o "\r\n" \o SerializedHeaders(Tail(headers))

\* the header block a client writes for a method, a path and header pairs
Serialized(method, route, headers) ==
  method \o " " \o route \o " HTTP/1.1\r\n" \o SerializedHeaders(headers) \o "\r\n"

InitParse ==
  /\ InitServer
  /\ InitResponse
  /\ InitNoPool
  /\ \E method \in ParseMethods, route \in ParsePaths,
        headers \in SeqsUpTo(ParseKeys \X ParseValues, MaxHeaders) :
        parsing = [method |-> method, route |-> route, headers |-> headers, parsed |-> <<>>]

\* HttpRequest request(request_string) on the serialized block
Parse ==
  /\ parsing.parsed = <<>>
  /\ parsing' = [parsing EXCEPT !.parsed =
                   <<HttpRequest(Serialized(parsing.method, parsing.route, parsing.headers))>>]
  /\ UNCHANGED <<serverVars, responseVars, connVars, poolVars>>

NextParse == Parse

SpecParse == InitParse /\ [][NextParse]_vars

(***************************************************************************)
(* SpecResponse: a caller building one HttpResponse and serializing it     *)
(***************************************************************************)
HeaderKeys == {"Content-Type", "Location", "a", "x-powered-by"}
HeaderValues == {"1", "text/css"}
Bodies == {"", "hi"}
StatusCodes == {200, 404, 405, 149, 65941}

InOrder(k) == \E i \in 1..Len(order) : order[i] = k

SetHeader(key, value) ==
  /\ Len(order) < MaxHeaderCalls
  /\ ~InOrder(key)
  /\ res' = set_header(res, key, value)
  /\ order' = Append(order, key)
  /\ wire' = ""
  /\ UNCHANGED <<serverVars, connVars, poolVars, parseVars>>

SetStatusCode(c) ==
  /\ res' = set_status_code(res, c)
  /\ wire' = ""
  /\ UNCHANGED <<order, serverVars, connVars, poolVars, parseVars>>

Text(msg) ==
  /\ Len(order) < MaxHeaderCalls
  /\ ~InOrder("Content-Type")
  /\ res' = text(res, msg)
  /\ order' = Append(order, "Content-Type")
  /\ wire' = ""
  /\ UNCHANGED <<serverVars, connVars, poolVars, parseVars>>

GetFullResponse ==
  /\ wire' = get_full_response(res)
  /\ UNCHANGED <<res, order, serverVars, connVars, poolVars, parseVars>>

NextResponse ==
  \/ \E k \in HeaderKeys, v \in HeaderValues : SetHeader(k, v)
  \/ \E c \in StatusCodes : SetStatusCode(c)
  \/ \E b \in Bodies : Text(b)
  \/ GetFullResponse

SpecResponse == Init /\ [][NextResponse]_vars

(***************************************************************************)
(* Properties of the dispatch (Spec)                                       *)
(***************************************************************************)
\* the connection task read a complete header block and dispatched it
Dispatched == pc = "serving" /\ conn.read # ""

Registered(method, route) ==
  method \in DOMAIN server._routes /\ route \in DOMAIN server._routes[method]

\* the reply is the 405 reply
Is405(reply) == StartsWith(reply, "HTTP/1.1 405 Method Not Allowed\r\n")

\* the reply carries the status and the body of the Not-Found Response nf
IsNotFoundReply(reply, nf) ==
  /\ StartsWith(reply, "HTTP/1.1 " \o ToDec(nf._status_code) \o " ")
  /\ EndsWith(reply, "\r\n\r\n" \o nf._body)
  /\ nf._body # "" =>
       EndsWith(reply, "\r\nContent-Length: " \o ToDec(Len(nf._body)) \o "\r\n\r\n" \o nf._body)

\* C1: a request whose method has no route group gets a reply whose status line
\* is "HTTP/1.1 405 Method Not Allowed", and no handler is invoked.
C1_MethodWithoutRoutes ==
  (Dispatched /\ conn.method \notin DOMAIN server._routes)
    => (Is405(conn.reply) /\ conn.invoked = <<>>)

C1_Witness ==
  /\ Dispatched
  /\ conn.method = "PATCH"
  /\ DOMAIN server._routes # {}
  /\ Is405(conn.reply)

\* C2: a request whose method has routes but whose exact path is not among them
\* gets the status and the body of the configured Not-Found Response, and no
\* handler is invoked.
C2_UnregisteredPath ==
  (Dispatched /\ conn.method \in DOMAIN server._routes /\ ~Registered(conn.method, conn.route))
    => (IsNotFoundReply(conn.reply, server._notFoundResponse) /\ conn.invoked = <<>>)

C2_Witness ==
  /\ Dispatched
  /\ conn.method = "GET" /\ conn.route = "/hello/"
  /\ Registered("GET", "/hello")
  /\ server._notFoundResponse._body = "gone"
  /\ StartsWith(conn.reply, "HTTP/1.1 404 Not Found\r\n")
  /\ EndsWith(conn.reply, "\r\n\r\ngone")

\* what the handler of the matched route writes into a fresh HttpResponse
Written == Invoke(server._routes[conn.method][conn.route], HttpRequest(conn.read), HttpResponse)

Matched == Dispatched /\ Registered(conn.method, conn.route)

\* C3 as stated: on a match the reply is the serialization of exactly the status,
\* headers and body the handler wrote, nothing added.
C3_Verbatim == Matched => conn.reply = get_full_response(Written)

\* C3 amended: on a match the reply is the serialization of the status and body
\* the handler wrote and of its headers plus "x-powered-by: Wilson-Server", which
\* is set before the handler runs and which the handler may overwrite; a GET
\* /hello handler calling text("hi") yields 200 OK, text/plain, Content-Length 2
\* and the body "hi".
C3_VerbatimPlusPoweredBy ==
  Matched =>
    /\ conn.invoked = <<server._routes[conn.method][conn.route]>>
    /\ conn.reply =
         get_full_response(
           [Written EXCEPT !._headers =
              IF "x-powered-by" \in DOMAIN Written._headers THEN Written._headers
              ELSE insert_or_assign(Written._headers, "x-powered-by", "Wilson-Server")])
    /\ conn.invoked = <<UserHandler("hText")>> =>
         conn.reply = "HTTP/1.1 200 OK\r\nContent-Type: text/plain\r\nx-powered-by: Wilson-Server\r\nContent-Length: 2\r\n\r\nhi"

C3_Witness ==
  /\ Matched
  /\ conn.method = "GET" /\ conn.route = "/hello"
  /\ conn.invoked = <<UserHandler("hText")>>
  /\ EndsWith(conn.reply, "Content-Length: 2\r\n\r\nhi")

\* the (method, route) pairs of the route table
Pairs(routes) == UNION { { <<m, p>> : p \in DOMAIN routes[m] } : m \in DOMAIN routes }

\* C4: the handler held, and dispatched, for a (method, path) pair is the one of
\* the latest registration for that exact pair, whatever was registered for
\* other pairs before or after.
C4_LastRegistrationWins ==
  /\ Pairs(server._routes) = DOMAIN lastReg
  /\ \A k \in DOMAIN lastReg : server._routes[k[1]][k[2]] = lastReg[k].latest
  /\ Matched => conn.invoked = <<lastReg[<<conn.method, conn.route>>].latest>>

C4_Witness ==
  /\ Matched
  /\ calls = 2
  /\ lastReg[<<conn.method, conn.route>>].first # lastReg[<<conn.method, conn.route>>].latest
  /\ conn.invoked = <<lastReg[<<conn.method, conn.route>>].latest>>

\* the request (method, route) differs from the pair (m, p) by a trailing slash,
\* by letter case or by an appended query string
Variant(method, route, m, p) ==
  /\ <<method, route>> # <<m, p>>
  /\ \/ method = m /\ route = p \o "/"
     \/ method = m /\ StartsWith(route, p \o "?")
     \/ lowers(method) = lowers(m) /\ lowers(route) = lowers(p)

\* C5: a handler is invoked only by a request line that carries its method and
\* its path byte for byte; a request that differs from every registered pair,
\* among them by a trailing slash, letter case or an appended query string,
\* invokes nothing and gets the 405 or the Not-Found reply.
C5_ExactMatching ==
  Dispatched =>
    /\ conn.invoked # <<>> =>
         \E k \in Pairs(server._routes) :
           /\ conn.invoked = <<server._routes[k[1]][k[2]]>>
           /\ StartsWith(conn.sent, k[1] \o " " \o k[2] \o " ")
    /\ \A k \in Pairs(server._routes) :
         (Variant(conn.method, conn.route, k[1], k[2]) /\ ~Registered(conn.method, conn.route))
           => /\ conn.invoked = <<>>
              /\ \/ Is405(conn.reply)
                 \/ IsNotFoundReply(conn.reply, server._notFoundResponse)

C5_Witness ==
  /\ Dispatched
  /\ Registered("GET", "/hello")
  /\ conn.route = "/hello?x=1"
  /\ conn.invoked = <<>>
  /\ StartsWith(conn.reply, "HTTP/1.1 404 Not Found\r\n")

(***************************************************************************)
(* Properties of the static mount (Spec)                                   *)
(***************************************************************************)
\* run is past staticSetup, which registered the routes of a static mount
StaticSetupDone ==
  pc \in {"socket", "bind", "listen", "serving"} /\ server._static_directory_path # ""

\* the route table holds a GET route given by the user through get
HasManualGet ==
  /\ "GET" \in DOMAIN server._routes
  /\ \E p \in DOMAIN server._routes["GET"] : server._routes["GET"][p].kind = "user"

\* C6: no server serves with both a static mount and a manually registered GET
\* route in its route table, whichever was configured first.
C6_MountExcludesManualGet ==
  pc = "serving" => ~(server._static_directory_path # "" /\ HasManualGet)

\* the Content-Type the extension stands for
MimeType(ext) ==
  CASE ext = ".css" -> "text/css"
    [] ext = ".js" -> "text/javascript"
    [] ext = ".html" -> "text/html"
    [] ext \in {".json", ".map"} -> "application/json"
    [] ext = ".txt" -> "text/plain"
    [] ext = ".png" -> "image/png"
    [] ext = ".ico" -> "image/x-icon"
    [] ext = ".svg" -> "image/svg+xml"
    [] OTHER -> "text/plain"

\* the GET route serves the bytes of the file with the Content-Type
Serves(route, bytes, type) ==
  /\ Registered("GET", route)
  /\ LET r == Invoke(server._routes["GET"][route], HttpRequest(RawRequest("GET", route)), HttpResponse)
     IN  /\ r._body = bytes
         /\ "Content-Type" \in DOMAIN r._headers
         /\ r._headers["Content-Type"] = type

\* C7: after static setup every regular file at relative path R below the mounted
\* directory is served, with the Content-Type of its extension, by the GET route
\* at the mount prefix X followed by R (X \o R, or X/R for a prefix without a
\* trailing slash).
C7_RoutesUnderMountPrefix ==
  StaticSetupDone =>
    LET root == server._static_directory_path
        X == server._static_directory_mount_point
    IN  \A entry \in recursive_directory_iterator(root) \cap DOMAIN Files :
          LET R == relative(entry, root)
          IN  \/ Serves(X \o R, Files[entry], MimeType(extension(entry)))
              \/ Serves(X \o "/" \o R, Files[entry], MimeType(extension(entry)))

\* C8: after static setup the GET route at the mount prefix serves the root
\* index.html as text/html, whatever files the directory holds.
C8_MountPointServesIndex ==
  StaticSetupDone =>
    Serves(server._static_directory_mount_point,
           Files[server._static_directory_path \o "index.html"], "text/html")

\* the static directory is missing, is no directory or has no index.html
BadStaticDirectory ==
  LET d == server._static_directory_path
  IN  d # "" /\ (d \notin Dirs \/ (d \o "index.html") \notin DOMAIN Files)

\* C9: run on a server whose static directory is missing, is no directory or
\* has no index.html raises invalid_argument with no listening socket created,
\* no connection handled and no route registered.
C9_BadMountFailsBeforeListening ==
  (pc # "config" /\ BadStaticDirectory) =>
    /\ pc = "raised"
    /\ StartsWith(thrown, "invalid_argument: ")
    /\ listenfd = "none"
    /\ conn = NoConn
    /\ \A k \in Pairs(server._routes) : server._routes[k[1]][k[2]].kind = "user"
    /\ \A k \in DOMAIN lastReg : lastReg[k].latest.kind = "user"

C9_Witness ==
  /\ pc = "raised"
  /\ server._static_directory_path = "noidx/"
  /\ thrown = "invalid_argument: index.html does not exist in the root directory of the static folder"
  /\ listenfd = "none"
  /\ Pairs(server._routes) # {}

(***************************************************************************)
(* Properties of the serialization (SpecResponse)                          *)
(***************************************************************************)
\* offset of the header line of key k in the serialized response
LineOf(k) == Find(wire, "\r\n" \o k \o ": ")

\* C10 as stated: the serialized response lists the headers in the order in
\* which they were set.
C10_InsertionOrder ==
  wire # "" => \A i, j \in 1..Len(order) : i < j => LineOf(order[i]) < LineOf(order[j])

\* C10 amended: the serialized response lists the headers in ascending byte-wise
\* order of their keys, whatever the order of the set_header calls, after the
\* status line and before Content-Length.
C10_KeyOrder ==
  wire # "" =>
    /\ \A k \in DOMAIN res._headers :
         /\ LineOf(k) >= Find(wire, "\r\n")
         /\ LineOf(k) > 0
         /\ res._body # "" => LineOf(k) < Find(wire, "\r\nContent-Length: ")
    /\ \A k1, k2 \in DOMAIN res._headers : StrLess(k1, k2) => LineOf(k1) < LineOf(k2)

C10_Witness ==
  /\ wire # ""
  /\ order = <<"x-powered-by", "a", "Content-Type">>
  /\ res._body = "hi"
  /\ LineOf("Content-Type") < LineOf("a")
  /\ LineOf("a") < LineOf("x-powered-by")

\* the bytes of the serialized response after its first blank line
AfterBlankLine(w) == SubSeq(w, Find(w, "\r\n\r\n") + 4, Len(w))

\* C11: the serialized response is the status line, the header lines, a
\* Content-Length header present exactly when the body is non-empty and equal to
\* the body's length, one blank line, then exactly the body; for an empty body
\* nothing follows the first "\r\n\r\n".
C11_Framing ==
  wire # "" =>
    /\ StartsWith(wire, "HTTP/1.1 " \o ToDec(res._status_code) \o " ")
    /\ \A k \in DOMAIN res._headers :
         LineOf(k) > 0 /\ LineOf(k) < Find(wire, "\r\n\r\n")
    /\ (Find(wire, "\r\nContent-Length: ") > 0) <=> (res._body # "")
    /\ res._body # "" =>
         Find(wire, "\r\nContent-Length: " \o ToDec(Len(res._body)) \o "\r\n\r\n")
           = Find(wire, "\r\n\r\n") - Len("\r\nContent-Length: " \o ToDec(Len(res._body)))
    /\ Find(wire, "\r\n\r\n") > 0
    /\ AfterBlankLine(wire) = res._body

\* the reason phrases of the documented table, "OK" for every code outside it
ReasonPhrase(status_code) ==
  CASE status_code = 200 -> "OK"
    [] status_code = 301 -> "Moved Permanently"
    [] status_code = 302 -> "Found"
    [] status_code = 400 -> "Bad Request"
    [] status_code = 404 -> "Not Found"
    [] status_code = 405 -> "Method Not Allowed"
    [] OTHER -> "OK"

\* C12: for every status code a handler can set, the reason phrase of the status
\* line is the table entry for 200, 301, 302, 400, 404 and 405 and "OK" for
\* every other code.
C12_ReasonPhrase ==
  wire # "" =>
    StartsWith(wire, "HTTP/1.1 " \o ToDec(res._status_code) \o " "
                       \o ReasonPhrase(res._status_code) \o "\r\n")

(***************************************************************************)
(* Properties of the connection task (SpecConn)                            *)
(***************************************************************************)
\* the task read a complete, well-formed header block
ParsedRequest == conn.read # "" /\ WellFormed(conn.read)

\* the content-length value is a decimal number of at most ULONG_MAX
ValidContentLength(v) ==
  /\ v # ""
  /\ LeadingDigits(v) = v
  /\ \/ Len(WithoutLeadingZeros(v)) < Len(ULONG_MAX)
     \/ Len(WithoutLeadingZeros(v)) = Len(ULONG_MAX) /\ ~StrLess(ULONG_MAX, WithoutLeadingZeros(v))

\* the content-length header of the request read is absent, non-numeric,
\* negative or out of range
BadContentLength ==
  LET h == HttpRequest(conn.read)._headers
  IN  "content-length" \notin DOMAIN h \/ ~ValidContentLength(h["content-length"])

\* C13: a request whose content-length header is absent, non-numeric, negative
\* or out of range is dispatched with an empty body, its connection gets its
\* normal response, and the server keeps serving (requests whose handler itself
\* raises an error are left aside).
C13_BadContentLengthNotFatal ==
  (ParsedRequest /\ BadContentLength /\ conn.raised # "runtime_error") =>
    /\ conn.outcome = "returned"
    /\ conn.body = ""
    /\ conn.reply = Dispatch(HttpRequest(conn.read), server._routes, server._notFoundResponse).reply
    /\ process = "running"

\* what the peer sent after the header block
BodySent == SubSeq(conn.sent, Len(conn.read) + 1, Len(conn.sent))

\* C14: when the request carries a valid content-length N and the peer sends N
\* body bytes, the request given to the handler has exactly those bytes as its
\* body, however they arrive.
C14_BodyRead ==
  (/\ ParsedRequest
   /\ ~BadContentLength
   /\ DecValue(HttpRequest(conn.read)._headers["content-length"]) = Len(BodySent)
   /\ conn.invoked # <<>>)
    => conn.body = BodySent

\* C15: when the peer closes before the header terminator has been read, or a
\* read fails, the task writes no response, invokes no handler and closes the
\* connection descriptor.
C15_EarlyCloseClosesDescriptor ==
  (conn.outcome = "returned" /\ conn.read = "")
    => (conn.reply = "" /\ conn.invoked = <<>> /\ conn.closed)

\* C19: a request whose request line has no path, or with a header line without
\* ": ", makes the server drop that connection only: nothing is dispatched for
\* it and the process keeps serving.
C19_ParseErrorsLocal ==
  (conn.read # "" /\ ~WellFormed(conn.read))
    => (conn.reply = "" /\ conn.invoked = <<>> /\ process = "running")

(***************************************************************************)
(* Properties of the pool and of the accept loop (SpecPool, SpecPoolFair)  *)
(***************************************************************************)
Accepted == 1..Len(conns)

\* the connection asks for GET /hello, whose handler returns at once
Fast(c) == conns[c].peer = Closing(RawRequest("GET", "/hello"))

\* the task of the connection is in the queue
Queued(c) == \E i \in 1..Len(tasks) : tasks[i] = c

\* the connection holds the worker that runs its task: its handler is slow or
\* its peer stalls
HoldingPeers ==
  { p \in PoolPeers :
      \E t \in TaskOutcomes[p] : t.outcome = "blocked" \/ (t.invoked # <<>> /\ Slow(t.invoked[1])) }

Holding(c) == conns[c].peer \in HoldingPeers

\* the holding connections that are on a worker, or in the queue before c
Ahead(c) ==
  { d \in Accepted \ {c} :
      /\ Holding(d)
      /\ \/ \E w \in Workers : workers[w].connfd = d
         \/ \E i, j \in 1..Len(tasks) : i < j /\ tasks[i] = d /\ tasks[j] = c }

Answered(c) == conns[c].task.reply # ""

Stalled(w) ==
  workers[w].pc = "blocked" /\ conns[workers[w].connfd].peer.end = "stall"

\* C17: a worker reading from a peer that stays connected without completing its
\* header block abandons the connection by itself: it has a step to take that
\* waits for no peer.
C17_ReadTimeout == \A w \in Workers : Stalled(w) => ENABLED WorkerStep(w)

\* C18: once an interrupt signal has been handled while run serves, the run flag
\* is false and run raises no error: it is on its way to a normal return.
C18_InterruptShutsDownCleanly ==
  sigint = "handled" => (_run = 0 /\ thrown = "" /\ pc \notin {"unwind", "raised"})

\* C20: a handler that raises an error while serving one connection leaves the
\* process running for the other connections.
C20_HandlerErrorsLocal ==
  \A c \in Accepted : conns[c].task.raised = "runtime_error" => process = "running"

(***************************************************************************)
(* Properties of the request parser (SpecParse)                            *)
(***************************************************************************)
\* the header map of a sequence of pairs, a later pair overriding an earlier
\* one with the same key
RECURSIVE HeaderMap(_)
HeaderMap(headers) ==
  IF headers = <<>> THEN NoHeaders
  ELSE LET last == headers[Len(headers)]
           before == HeaderMap(SubSeq(headers, 1, Len(headers) - 1))
       IN  [k \in DOMAIN before \cup {last[1]} |-> IF k = last[1] THEN last[2] ELSE before[k]]

\* the pairs with their keys and values lower-cased
Lowered(headers) ==
  [i \in 1..Len(headers) |-> <<lowers(headers[i][1]), lowers(headers[i][2])>>]

\* the pairs with their keys and values trimmed of surrounding whitespace
Trimmed(headers) ==
  [i \in 1..Len(headers) |-> <<trim(headers[i][1]), trim(headers[i][2])>>]

HasParsed == parsing.parsed # <<>>

\* C21 as stated: parsing the serialized request line and header lines recovers
\* the method, the path and the header map with keys and values lower-cased, a
\* later duplicate key overriding an earlier one.
C21_RoundTrip ==
  HasParsed =>
    /\ parsing.parsed[1]._method = parsing.method
    /\ parsing.parsed[1]._route = parsing.route
    /\ parsing.parsed[1]._headers = HeaderMap(Lowered(parsing.headers))

\* C21 amended: for a method and a path without a space, parsing recovers the
\* method, the path and the header map with keys and values trimmed of
\* surrounding whitespace and lower-cased, a later duplicate key (compared after
\* trimming and lower-casing) overriding an earlier one.
C21_RoundTripTrimmed ==
  (HasParsed /\ Offsets(parsing.method, " ") = {} /\ Offsets(parsing.route, " ") = {}) =>
    /\ parsing.parsed[1]._method = parsing.method
    /\ parsing.parsed[1]._route = parsing.route
    /\ parsing.parsed[1]._headers = HeaderMap(Lowered(Trimmed(parsing.headers)))
    /\ parsing.parsed[1]._body = ""

C21_Witness ==
  /\ HasParsed
  /\ parsing.method = "Post" /\ parsing.route = "/A/b?x=1"
  /\ parsing.headers = << <<"Host", "A.b">>, <<"host", "keep-alive ">> >>
  /\ parsing.parsed[1]._route = "/A/b?x=1"
  /\ parsing.parsed[1]._headers = [k \in {"host"} |-> "keep-alive"]

(***************************************************************************)
(* C22: configuration methods return a modified copy                       *)
(***************************************************************************)
\* the configurable parts in which the copy differs from the server
Changed(srv, copy) ==
  { f \in {"backlog", "not-found response", "static mount"} :
      CASE f = "backlog" -> copy._numListeners # srv._numListeners
        [] f = "not-found response" -> copy._notFoundResponse # srv._notFoundResponse
        [] f = "static mount" ->
             \/ copy._static_directory_path # srv._static_directory_path
             \/ copy._static_directory_mount_point # srv._static_directory_mount_point }

\* a configuration method has just returned its copy
ConfigurationCall == calls' = calls + 1 /\ returned' # <<>>

\* C22: setNumListeners, set404Page, set404Text, set404Response and
\* mount_static_directory leave the server they are called on unchanged and
\* return a server that differs from it only in the configured field and keeps
\* every route registered so far.
C22_ModifiedCopy ==
  [][ConfigurationCall =>
       /\ server' = server
       /\ returned'[1]._routes = server._routes
       /\ setNumListeners(10) => Changed(server, returned'[1]) \subseteq {"backlog"}
       /\ (\E path \in {"e404.html", "missing.html"} : set404Page(path)) =>
            Changed(server, returned'[1]) \subseteq {"not-found response"}
       /\ set404Text("gone") => Changed(server, returned'[1]) \subseteq {"not-found response"}
       /\ (\E r \in NotFoundResponses : set404Response(r)) =>
            Changed(server, returned'[1]) \subseteq {"not-found response"}
       /\ (\E m \in Mounts : mount_static_directory(m[1], m[2])) =>
            Changed(server, returned'[1]) \subseteq {"static mount"}]_vars

C22_Witness ==
  /\ returned # <<>>
  /\ server._routes # NoRoutes
  /\ returned[1]._routes = server._routes
  /\ Changed(server, returned[1]) = {"static mount"}

(***************************************************************************)
(* C23: the connection lifecycle ends in CLOSED                            *)
(***************************************************************************)
\* the task parsed a well-formed request and went through DISPATCHING and
\* WRITING: a reply was written
ReplyWritten ==
  conn.outcome = "returned" /\ conn.read # "" /\ WellFormed(conn.read) /\ conn.reply # ""

\* C23: whatever the dispatch outcome (405, Not-Found or a matched route), a
\* connection whose task has written its reply and returned is closed.
C23_EndsClosed == ReplyWritten => conn.closed

(***************************************************************************)
(* C24: one task is one connection lifecycle                               *)
(***************************************************************************)
\* the workers whose task is connection c
OnWorker(c) == { w \in Workers : workers[w].connfd = c }

\* the places of the queue that hold the task of connection c
InQueue(c) == { i \in 1..Len(tasks) : tasks[i] = c }

\* worker w is inside task(): reading, dispatching, in the handler, writing
InTask(w) == workers[w].pc \in {"task", "handler", "blocked"}

\* no connection is the task of two workers, or of a worker and of the queue
OneTaskPerConnection ==
  \A c \in Accepted : Cardinality(OnWorker(c)) + Cardinality(InQueue(c)) <= 1

\* C24: each successful accept enqueues exactly one task for the accepted
\* descriptor; whatever is done to a connection (read, dispatch, write, close)
\* is a step of the single worker that dequeued its task; no two tasks and no
\* two workers ever hold the same connection.
C24_OneTaskOneConnection ==
  [][/\ Len(conns') # Len(conns) =>
          (conns' = Append(conns, conns'[Len(conns')]) /\ pc = "accept" /\ pc' = "enqueue")
     /\ Len(tasks') > Len(tasks) =>
          (tasks' = Append(tasks, Len(conns)) /\ pc = "push" /\ pc' = "notify"
           /\ OnWorker(Len(conns)) = {} /\ InQueue(Len(conns)) = {}
           /\ conns[Len(conns)].task = NoConn)
     /\ pc' = "accept" => (pc \in {"loop", "accept"})
     /\ \A c \in Accepted :
          conns'[c].task # conns[c].task =>
            \E w \in Workers :
              OnWorker(c) = {w} /\ InTask(w) /\ InQueue(c) = {} /\ workers'[w].connfd = 0
     /\ \A w \in Workers :
          (workers'[w].connfd # workers[w].connfd /\ workers'[w].connfd # 0) =>
            (workers[w].connfd = 0 /\ workers'[w].connfd = Head(tasks)
             /\ tasks' = Tail(tasks) /\ OnWorker(Head(tasks)) = {})
     /\ OneTaskPerConnection']_vars

\* two workers are inside the tasks of two connections, and a third
\* connection, closed by the worker that served it, is done
C24_Witness ==
  /\ \E w1, w2 \in Workers : w1 # w2 /\ InTask(w1) /\ InTask(w2)
  /\ \E c \in Accepted : conns[c].task.closed /\ OnWorker(c) = {}
  /\ OneTaskPerConnection

(***************************************************************************)
(* C25: destruction of the pool drains and joins                           *)
(***************************************************************************)
\* ~ThreadPool has returned: run has returned or passed its exception on
Destroyed == pc \in {"returned", "raised"}

\* C25: when the destruction of the pool completes, the task queue is empty,
\* every task enqueued before has been executed to completion and every worker
\* has exited.
C25_DrainsAndJoins ==
  Destroyed =>
    /\ tasks = <<>>
    /\ \A c \in Accepted : conns[c].task.outcome = "returned"
    /\ \A w \in Workers : workers[w].pc = "exited"

(***************************************************************************)
(* C26: FIFO dequeue                                                       *)
(***************************************************************************)
\* the task of connection c has been dequeued: a worker runs it or has run it
Started(c) == OnWorker(c) # {} \/ conns[c].task.outcome # ""

\* C26: descriptors are numbered in the order of their accepts, which is the
\* order of their pushes. The queue holds its tasks in that order, and when the
\* task of B has been dequeued, the task of every A enqueued before B has been
\* dequeued already.
C26_FifoDequeue ==
  /\ \A i, j \in 1..Len(tasks) : i < j => tasks[i] < tasks[j]
  /\ \A a, b \in Accepted : (a < b /\ Started(b)) => Started(a)

\* the third task waits in the queue while the first two are on the workers
C26_Witness ==
  /\ Len(conns) = 3 /\ tasks = <<3>>
  /\ OnWorker(1) # {} /\ OnWorker(2) # {} /\ OnWorker(1) # OnWorker(2)

(***************************************************************************)
(* C27: every enqueued task is executed exactly once                       *)
(***************************************************************************)
\* enqueue has pushed the task of connection c
Pushed(c) == c < Len(conns) \/ pc \notin {"enqueue", "push"}

\* the task of connection c has been executed
Executed(c) == conns[c].task.outcome # ""

\* the number of places the task of connection c is in: the queue, the
\* workers, the executed tasks
Copies(c) ==
  Cardinality(InQueue(c)) + Cardinality(OnWorker(c)) + (IF Executed(c) THEN 1 ELSE 0)

ExactlyOnce == \A c \in Accepted : Copies(c) = (IF Pushed(c) THEN 1 ELSE 0)

InCritical ==
  { w \in Workers : workers[w].pc = "check" } \cup (IF pc = "push" THEN {Main} ELSE {})

\* the connections whose task some worker is executing
Executing == { c \in Accepted : \E w \in Workers : workers[w].connfd = c /\ InTask(w) }

GuardedQueue ==
  /\ Cardinality(InCritical) <= 1
  /\ InCritical = (IF queue_mutex = 0 THEN {} ELSE {queue_mutex})
  /\ \A w \in Workers : InTask(w) => queue_mutex # w
  /\ Cardinality(Executing) <= Len(workers)

\* C28: at every moment at most one thread, the acceptor or a worker, is
\* pushing to or popping from the task queue, and it holds queue_mutex; the
\* queue changes only under the lock; a worker executes its task without the
\* lock; the tasks executing at the same time are never more than the workers
\* the pool was created with, whose number never changes.
C28_GuardedQueue ==
  [][/\ GuardedQueue'
     /\ tasks' # tasks => (queue_mutex # 0 /\ InCritical = {queue_mutex} /\ queue_mutex' = 0)
     /\ DOMAIN workers' = DOMAIN workers]_vars

\* a worker holds the lock for its pop while the other executes a task and the
\* acceptor waits for the lock with the next task
C28_Witness ==
  /\ pc = "enqueue"
  /\ \E w1, w2 \in Workers : workers[w1].pc = "check" /\ queue_mutex = w1 /\ InTask(w2)
  /\ tasks # <<>>
  /\ GuardedQueue

(***************************************************************************)
(* C29: no task is stranded                                                *)
(***************************************************************************)
\* C29: whatever worker count run passed to the pool, a task waiting in the
\* queue has a worker thread that has not exited and comes to dequeue it.
C29_NoTaskStranded ==
  \A c \in Accepted : Queued(c) => \E w \in Workers : workers[w].pc # "exited"

(***************************************************************************)
(* C30: shared state is read-only while serving                            *)
(***************************************************************************)
\* the peer asks for a path that has no handler
AsksUnknownPath(c) == conns[c].peer = Closing(RawRequest("GET", "/nope"))

\* the Not-Found reply: the template of the serving process with x-powered-by
NotFoundReply == get_full_response(PoweredBy(HttpServer._notFoundResponse))

\* the task of c has sent the Not-Found reply
NotFoundSent(c) == AsksUnknownPath(c) /\ conns[c].task.outcome = "returned"

\* the template is the one run started with, without x-powered-by, and every
\* Not-Found reply was built on the task's own copy of it
OwnCopies ==
  /\ server._notFoundResponse = HttpServer._notFoundResponse
  /\ "x-powered-by" \notin DOMAIN server._notFoundResponse._headers
  /\ \A c \in Accepted :
       NotFoundSent(c) =>
         /\ conns[c].task.reply = NotFoundReply
         /\ conns[c].task._notFoundResponse = PoweredBy(server._notFoundResponse)

\* C30: from the first accept on, no step of the acceptor or of a worker
\* changes the route table or the Not-Found response of the server; a task
\* adds x-powered-by to its own copy of the template, so the template and the
\* Not-Found replies of the other tasks stay as they are.
C30_SharedStateReadOnly ==
  [][/\ server'._routes = server._routes
     /\ server'._notFoundResponse = server._notFoundResponse
     /\ OwnCopies']_vars

\* two tasks have sent the Not-Found reply, with x-powered-by, and the template
\* has no such header
C30_Witness ==
  /\ \E c, d \in Accepted : c # d /\ NotFoundSent(c) /\ NotFoundSent(d)
  /\ OwnCopies
  /\ process = "running"

(***************************************************************************)
(* C31: a fresh Response for every request                                 *)
(***************************************************************************)
\* the peers whose request has a handler that returns
HandledPeers == { Closing(RawRequest("GET", "/hello")), Closing(RawRequest("GET", "/slow")) }

\* the reply to a peer when its handler starts from a Response of its own:
\* status 200, no body, nothing but x-powered-by
OwnReply ==
  [peer \in HandledPeers |->
     LET request == HttpRequest(request_string(peer.bytes))
         func == ServingRoutes[request._method][request._route]
     IN  get_full_response(Invoke(func, request, PoweredBy(HttpResponse)))]

\* a handler was called for connection c
Invoked(c) == conns[c].task.invoked # <<>>

\* C31: the Response a handler is called with has status 200, an empty body and
\* no header but x-powered-by, whatever the other connections were answered;
\* the response of a connection is the one its handler builds from that, so
\* nothing written by the handler of another connection is in it, under every
\* interleaving of the workers.
C31_FreshResponse ==
  \A c \in Accepted :
    Invoked(c) =>
      /\ conns[c].task.res._status_code = 200
      /\ conns[c].task.res._body = ""
      /\ DOMAIN conns[c].task.res._headers = {"x-powered-by"}
      /\ (conns[c].task.outcome = "returned" /\ conns[c].peer \in HandledPeers)
           => conns[c].task.reply = OwnReply[conns[c].peer]

\* a slow handler and a fast one have both written their responses, the fast
\* one for a connection accepted later
C31_Witness ==
  /\ \E c, d \in Accepted :
       /\ c < d
       /\ conns[c].peer = Closing(RawRequest("GET", "/slow")) /\ Invoked(c)
       /\ conns[d].peer = Closing(RawRequest("GET", "/hello")) /\ Invoked(d)
       /\ conns[c].task.reply # "" /\ conns[d].task.reply # ""
       /\ conns[c].task.reply # conns[d].task.reply
       /\ conns[d].task.res._status_code = 200
  /\ process = "running"

(***************************************************************************)
(* C32: at most one response and one handler call per connection          *)
(***************************************************************************)
\* a worker ends the task of connection c in this step
TaskEnds(c) == \E w \in Workers : workers[w].connfd = c /\ workers'[w].connfd # c

\* the handler called for connection c is the one registered for the method
\* and the exact path of its request
CalledAsRegistered(c) ==
  LET t == conns[c].task
  IN  /\ Len(t.invoked) = 1
      /\ t.method \in DOMAIN server._routes
      /\ t.route \in DOMAIN server._routes[t.method]
      /\ t.invoked[1] = server._routes[t.method][t.route]

\* C32: the task of an accepted connection ends once, on a connection nothing
\* was written to and no handler was called for; what it leaves, at most one
\* response and at most one handler call, never changes afterwards; and a
\* handler is called only when the method and the exact path of the request
\* are registered.
C32_AtMostOneResponse ==
  [][\A c \in Accepted :
       /\ TaskEnds(c) => (conns[c].task.reply = "" /\ conns[c].task.invoked = <<>>)
       /\ conns[c].task.outcome # "" => conns'[c].task = conns[c].task
       /\ Invoked(c)' => CalledAsRegistered(c)']_vars

\* one connection got the reply of its handler, another the Not-Found reply
\* without any handler call
C32_Witness ==
  \E c, d \in Accepted :
    /\ conns[c].peer \in HandledPeers
    /\ Invoked(c) /\ CalledAsRegistered(c) /\ conns[c].task.reply = OwnReply[conns[c].peer]
    /\ NotFoundSent(d) /\ ~Invoked(d) /\ conns[d].task.reply = NotFoundReply

(***************************************************************************)
(* C33: accept failure is fatal                                            *)
(***************************************************************************)
\* accept_connection has thrown
AcceptFailed == thrown = "runtime_error: error accepting connection"

\* C33: once accept has failed the listening socket is closed, run is on its
\* way out with the error and not in its loop, every accepted connection has
\* had its task enqueued and no other task was, and when the pool has been
\* destroyed the tasks enqueued before the failure have been run to
\* completion.
C33_AcceptFailureFatal ==
  AcceptFailed =>
    /\ listenfd = "closed"
    /\ pc \in {"unwind", "destroy", "notify_all", "join", "raised"}
    /\ \A c \in Accepted : Pushed(c) /\ Copies(c) = 1
    /\ pc = "raised" =>
         (tasks = <<>> /\ \A c \in Accepted : conns[c].task.outcome = "returned")

(***************************************************************************)
(* C34: bounded bind retry                                                 *)
(***************************************************************************)
\* 1 + 2 + ... + k: the seconds slept after k failed attempts
RECURSIVE Backoff(_)
Backoff(k) == IF k = 0 THEN 0 ELSE k + Backoff(k - 1)

BindFailed == thrown = "runtime_error: Unable to bind after 5 tries"

\* C34: try_bind is about to call bind only with fewer than 5 failed attempts
\* behind it, having waited k seconds after the k-th of them; it returns at the
\* first success, raises exactly when the fifth attempt fails too, and after
\* that raise nothing listens and no connection is served.
C34_BoundedBindRetry ==
  [][/\ pc = "bind" =>
          /\ bind_retry_count < BIND_RETRY_COUNT
          /\ slept = Backoff(bind_retry_count)
          /\ listenfd' = "bound" => (pc' = "listen" /\ thrown' = "")
          /\ pc' = "bind" =>
               (bind_retry_count' = bind_retry_count + 1
                /\ slept' = slept + bind_retry_count')
          /\ BindFailed' <=>
               (listenfd' # "bound" /\ bind_retry_count = BIND_RETRY_COUNT - 1)
          /\ BindFailed' => (pc' = "raised" /\ slept' = Backoff(BIND_RETRY_COUNT))
     /\ BindFailed =>
          (pc' = "raised" /\ listenfd' = "created" /\ conn' = NoConn /\ BindFailed')]_vars

\* bind has failed three times, 1 + 2 + 3 seconds were slept, and a fourth
\* attempt is about to be made
C34_Witness == pc = "bind" /\ bind_retry_count = 3 /\ slept = 6

(***************************************************************************)
(* C35: the order of a signal-driven shutdown                              *)
(***************************************************************************)
\* C35: when the loop of run has ended on the run flag, without an error, the
\* listening socket is closed only once the pool has been drained and its
\* workers joined.
C35_ShutdownOrder ==
  (sigint = "handled" /\ thrown = "" /\ listenfd = "closed") => pc = "returned"

(***************************************************************************)
(* C36: no new work after the stop signal                                  *)
(***************************************************************************)
\* C36: once intHandler has cleared the run flag, no step accepts a further
\* connection and no step pushes a further task.
C36_NoWorkAfterStop ==
  [][_run = 0 => (Len(conns') = Len(conns) /\ Len(tasks') <= Len(tasks))]_vars

(***************************************************************************)
(* C37: the Not-Found Response always has status 404                       *)
(***************************************************************************)
\* the Not-Found response of the server a configuration call has returned
Configured == returned[1]._notFoundResponse

\* C37: the Not-Found response of the constructed server has status 404, and
\* so has the one of every server that set404Page, set404Text or
\* set404Response returns, whatever status the Response given carried, and of
\* the server the caller keeps; its body is the file, the text or the body of
\* the Response given to the latest of those calls.
C37_NotFoundAlways404 ==
  /\ server._notFoundResponse._status_code = 404
  /\ [][/\ server'._notFoundResponse._status_code = 404
        /\ returned' # <<>> => Configured'._status_code = 404
        /\ set404Text("gone") => Configured'._body = "gone"
        /\ \A path \in {"e404.html", "missing.html"} :
             set404Page(path) => Configured'._body = slurp(path)
        /\ \A r \in NotFoundResponses : set404Response(r) => Configured'._body = r._body
        /\ Assign => server'._notFoundResponse = Configured]_vars

\* the caller keeps the server set404Response returned for a Response that
\* carried status 500
C37_Witness ==
  /\ returned = <<>> /\ calls > 0
  /\ server._notFoundResponse._body = "oops"
  /\ server._notFoundResponse._status_code = 404

(***************************************************************************)
(* C38: a rejected GET registration changes nothing                        *)
(***************************************************************************)
\* the server has a static directory path
StaticMode == server._static_directory_path # ""

\* the step registers func for the route under the method and changes nothing
\* else of the server
Registers(method, route, func) ==
  /\ thrown' = ""
  /\ method \in DOMAIN server'._routes
  /\ route \in DOMAIN server'._routes[method]
  /\ server'._routes[method][route] = func
  /\ server' = [server EXCEPT !._routes = server'._routes]

\* C38: on a server whose static directory path is set, get raises
\* invalid_argument and leaves the whole server (route table, static mount,
\* Not-Found response) as it was, while post, del and put register their
\* routes.
C38_RejectedGetChangesNothing ==
  [][StaticMode =>
       \A route \in Routes, id \in UserHandlerIds :
         /\ Get(route, UserHandler(id)) =>
              /\ thrown' = "invalid_argument: Cannot define GET routes while in static directory serving mode"
              /\ server' = server
              /\ returned' = <<>>
         /\ Post(route, UserHandler(id)) => Registers("POST", route, UserHandler(id))
         /\ Del(route, UserHandler(id)) => Registers("DELETE", route, UserHandler(id))
         /\ Put(route, UserHandler(id)) => Registers("PUT", route, UserHandler(id))]_vars

\* get was rejected on a server with a static mount and no route
C38_Witness ==
  /\ StaticMode
  /\ thrown = "invalid_argument: Cannot define GET routes while in static directory serving mode"
  /\ server._routes = NoRoutes
  /\ server._static_directory_mount_point = "/app"
  /\ pc = "config"

====
